---- MODULE Spec2Model ----
(***************************************************************************)
(* The interactive shopping list of tom-bot (src/discord_bot/commands/     *)
(* shop.rs): the /shop command, the bought / remove / readd buttons, and   *)
(* the store and chat platform they talk to.  Every event is handled by    *)
(* its own task; every await of the handlers is one step of that task.     *)
(***************************************************************************)
EXTENDS Integers, Sequences, FiniteSets, TLC

VARIABLES
    store,       \* the shopping-list table: a sequence of rows, oldest first
    messages,    \* the channel: messages[i] is the message whose id is i
    tasks,       \* per task: the event it handles, its position and locals
    delivered,   \* number of events delivered so far
    deleted,     \* number of rows removed from the table behind the bot's back
    failures     \* number of store and platform calls that have failed

vars == <<store, messages, tasks, delivered, deleted, failures>>

(***************************************************************************)
(* Bounds of the model.                                                    *)
(***************************************************************************)
MaxEvents == 2
MaxDeletes == 1
MaxFailures == 1

Tasks == {1, 2}
Users == {1, 2}
Channels == {7}
Guilds == {<<9>>}
ErrTexts == {"timeout", "refused"}

(***************************************************************************)
(* Option<T> is a sequence of length at most one; a String is a sequence   *)
(* of one-character strings.                                               *)
(***************************************************************************)
None == <<>>
Some(x) == <<x>>
IsSome(o) == Len(o) = 1
Unwrap(o) == o[1]

Milk2L == <<"m", "i", "l", "k", " ", "2", "L">>
Tea == <<"t", "e", "a">>
Countdown == <<"C", "o", "u", "n", "t", "d", "o", "w", "n">>
Ripe == <<"r", "i", "p", "e">>

RECURSIVE Concat(_)
Concat(ss) == IF ss = <<>> THEN <<>> ELSE Head(ss) \o Concat(Tail(ss))

Digit(d) == <<"0", "1", "2", "3", "4", "5", "6", "7", "8", "9">>[d + 1]

RECURSIVE NatToString(_)
NatToString(n) ==
    IF n < 10 THEN <<Digit(n)>> ELSE NatToString(n \div 10) \o <<Digit(n % 10)>>

\* Display for i64
Display(n) == IF n < 0 THEN <<"-">> \o NatToString(0 - n) ELSE NatToString(n)

(***************************************************************************)
(* The options a /shop command can carry.  item and personal are required  *)
(* by the command schema, quantity is one of the choices 1..25.            *)
(***************************************************************************)
Requests ==
    { [item |-> Some(Milk2L), personal |-> Some(TRUE), quantity |-> Some(3),
       store |-> None, notes |-> None],
      [item |-> Some(Tea), personal |-> None, quantity |-> Some(3),
       store |-> None, notes |-> None] }

TryFrom_DefaultsZero(options) ==
    IF options.item = None \/ options.personal = None
    THEN <<"Err", "item and personal are required">>
    ELSE <<"Ok", [item |-> Unwrap(options.item),
                  personal |-> Unwrap(options.personal),
                  quantity |-> IF IsSome(options.quantity)
                               THEN Unwrap(options.quantity) ELSE 0,
                  store |-> options.store,
                  notes |-> options.notes]>>

TryFrom_PersonalOptional(options) ==
    IF options.item = None
    THEN <<"Err", "item and personal are required">>
    ELSE <<"Ok", [item |-> Unwrap(options.item),
                  personal |-> IF IsSome(options.personal)
                               THEN Unwrap(options.personal) ELSE FALSE,
                  quantity |-> IF IsSome(options.quantity)
                               THEN Unwrap(options.quantity) ELSE 1,
                  store |-> options.store,
                  notes |-> options.notes]>>

\* impl TryFrom<&CommandInteraction> for Shop: <<"Ok", shop>> or <<"Err", text>>
TryFrom(options) ==
    IF options.item = None \/ options.personal = None
    THEN <<"Err", "item and personal are required">>
    ELSE <<"Ok", [item |-> Unwrap(options.item),
                  personal |-> Unwrap(options.personal),
                  quantity |-> IF IsSome(options.quantity)
                               THEN Unwrap(options.quantity) ELSE 1,
                  store |-> options.store,
                  notes |-> options.notes]>>

(***************************************************************************)
(* Rendering.  A message carries embeds, a row of buttons and a content;   *)
(* an embed carries an optional description and a colour.                  *)
(***************************************************************************)
Button(custom_id, disabled) == [custom_id |-> custom_id, disabled |-> disabled]

NewShoppingDescription_NoPersonal(shop) ==
    Concat(<< <<"A", "d", "d", "e", "d", " ", "x">>,
              Display(shop.quantity),
              <<" ">>,
              shop.item,
              <<" ", "t", "o", " ", "t", "h", "e", " ", "s", "h", "o", "p", "p",
                "i", "n", "g", " ", "l", "i", "s", "t">>,
              IF IsSome(shop.store)
              THEN <<" ", "f", "r", "o", "m", " ">> \o Unwrap(shop.store)
              ELSE <<>>,
              IF IsSome(shop.notes)
              THEN <<"\n", "*", "*", "n", "o", "t", "e", ":", "*", "*", " ">>
                   \o Unwrap(shop.notes)
              ELSE <<>> >>)

\* format!("Added x{} {}{} to the shopping list{}{}", ...)
NewShoppingDescription(shop) ==
    Concat(<< <<"A", "d", "d", "e", "d", " ", "x">>,
              Display(shop.quantity),
              <<" ">>,
              shop.item,
              IF shop.personal
              THEN <<" ", "(", "p", "e", "r", "s", "o", "n", "a", "l", ")">>
              ELSE <<>>,
              <<" ", "t", "o", " ", "t", "h", "e", " ", "s", "h", "o", "p", "p",
                "i", "n", "g", " ", "l", "i", "s", "t">>,
              IF IsSome(shop.store)
              THEN <<" ", "f", "r", "o", "m", " ">> \o Unwrap(shop.store)
              ELSE <<>>,
              IF IsSome(shop.notes)
              THEN <<"\n", "*", "*", "n", "o", "t", "e", ":", "*", "*", " ">>
                   \o Unwrap(shop.notes)
              ELSE <<>> >>)

\* create_new_shopping: the Active rendering of an item
create_new_shopping(shop) ==
    [embeds |-> << [description |-> Some(NewShoppingDescription(shop)),
                    color |-> "Red"] >>,
     components |-> << Button("bought", FALSE),
                       Button("remove", FALSE),
                       Button("readd", TRUE) >>,
     content |-> ""]

\* format!("(BOUGHT) ~~{}~~", description)
BoughtDescription(d) ==
    <<"(", "B", "O", "U", "G", "H", "T", ")", " ", "~", "~">> \o d \o <<"~", "~">>

\* format!("(REMOVED) {}", description)
RemovedDescription(d) ==
    <<"(", "R", "E", "M", "O", "V", "E", "D", ")", " ">> \o d

ReaddOnly_KeepsRemove == << Button("remove", FALSE), Button("readd", FALSE) >>

\* the one button of a closed item: an enabled "readd"
ReaddOnly == << Button("readd", FALSE) >>

\* the EditMessage built in the "bought" arm, from the clicked message's embed
BoughtEdit(ex_embed) ==
    [embeds |-> << [description |-> Some(BoughtDescription(Unwrap(ex_embed.description))),
                    color |-> "Green"] >>,
     components |-> ReaddOnly,
     content |-> ""]

\* the EditMessage built in the "remove" arm
RemoveEdit(ex_embed) ==
    [embeds |-> << [description |-> Some(RemovedDescription(Unwrap(ex_embed.description))),
                    color |-> "Orange"] >>,
     components |-> ReaddOnly,
     content |-> ""]

\* the placeholder the platform shows for a deferred response
LoadingMessage == [embeds |-> <<>>, components |-> <<>>, content |-> "loading"]

\* the ephemeral followup sent when the insert failed
ErrorFollowup ==
    [embeds |-> <<>>, components |-> <<>>,
     content |-> "error communicating with database"]

EnabledButtons(msg) ==
    { msg.components[i].custom_id : i \in { j \in DOMAIN msg.components :
                                            ~msg.components[j].disabled } }

(***************************************************************************)
(* The item store (database::shopping, behind AppState).                   *)
(***************************************************************************)
Row(user_id, message_id, channel_id, guild_id, new_item) ==
    [message_id |-> message_id, user_id |-> user_id,
     channel_id |-> channel_id, guild_id |-> guild_id,
     item |-> new_item.item, personal |-> new_item.personal,
     quantity |-> new_item.quantity, store |-> new_item.store,
     notes |-> new_item.notes, bought |-> FALSE]

RowsOf(s, message_id) == { i \in DOMAIN s : s[i].message_id = message_id }

\* get_shopping_list_item_by_message_id
GetByMessageId(s, message_id) ==
    IF RowsOf(s, message_id) = {} THEN None
    ELSE Some(s[CHOOSE i \in RowsOf(s, message_id) : TRUE])

AddShoppingListItem_NoConflict(s, row) == <<"Ok", Append(s, row)>>

\* add_shopping_list_item: <<"Ok", table>> or <<"Err", "Conflict">>
AddShoppingListItem(s, row) ==
    IF RowsOf(s, row.message_id) # {} THEN <<"Err", "Conflict">>
    ELSE <<"Ok", Append(s, row)>>

\* set_shopping_list_item_bought: the acting user is not compared with the
\* row's owner; a message without a row changes nothing
SetShoppingListItemBought(s, user_id, message_id, bought) ==
    [i \in DOMAIN s |->
        IF s[i].message_id = message_id THEN [s[i] EXCEPT !.bought = bought]
        ELSE s[i]]

RemoveAt(s, i) == SubSeq(s, 1, i - 1) \o SubSeq(s, i + 1, Len(s))

(***************************************************************************)
(* Tasks.  ops is the sequence of calls the task has made on the store,    *)
(* the platform and the log while handling its current event.              *)
(***************************************************************************)
Op(op, id, ok) == [op |-> op, id |-> id, ok |-> ok]

NoEvent == [kind |-> "none"]

IdleTask ==
    [pc |-> "idle", ev |-> NoEvent, shop |-> None, response |-> 0,
     deferred |-> FALSE, loading |-> 0, arg |-> 0, answer |-> "",
     items |-> <<>>, hasher |-> "", ops |-> <<>>, result |-> <<>>]

Ok_NoResponse == <<"Ok", "NoResponse">>
Err_NoResponse == <<"Err", "NoResponse">>
InternalFailure(text) == <<"Err", "InternalFailure", text>>
InternalFailureWith(text, e) == <<"Err", "InternalFailure", text, e>>
Panic(text) == <<"Panic", text>>
\* no command answers the click: the lookup of the clicked message found nothing
NotFound == <<"Err", "NotFound">>

Finish(task, result) == [task EXCEPT !.pc = "done", !.result = result]

(***************************************************************************)
(* CommandResponse (commands/util.rs).  What a handler returns is          *)
(* <<"Ok" or "Err", variant, message...>>; the response is the tuple from  *)
(* the variant on, and its String is kept as the pieces it was formatted   *)
(* from.                                                                   *)
(***************************************************************************)
ResponseOf(result) == Tail(result)

Message(response) == Tail(response)

GenericText == <<"An internal error occurred.">>

generate_response_Leaks(response) ==
    CASE response[1] = "BasicSuccess" -> Message(response)
      [] response[1] = "BasicFailure" -> Message(response)
      [] response[1] = "InternalFailure" -> Message(response)
      [] OTHER -> <<>>

\* generate_response: the content of the message shown to the user
generate_response(response) ==
    CASE response[1] = "BasicSuccess" -> Message(response)
      [] response[1] = "BasicFailure" -> Message(response)
      [] response[1] = "InternalFailure" -> GenericText
      [] OTHER -> <<>>

\* get_log_message
get_log_message(response) ==
    CASE response[1] = "BasicFailure" -> Some(Message(response))
      [] response[1] = "InternalFailure" -> Some(Message(response))
      [] OTHER -> None

\* get_log_type
get_log_type(response) ==
    CASE response[1] = "BasicFailure" -> "Error"
      [] OTHER -> "Info"

\* write_to_log: the entries written, each a severity and a text
write_to_log(response) ==
    IF get_log_message(response) = None THEN <<>>
    ELSE << [level |-> get_log_type(response),
             text |-> Unwrap(get_log_message(response))] >>

Log(task, id) == [task EXCEPT !.ops = Append(@, Op("log", id, TRUE))]

Call(task, op, id, ok) == [task EXCEPT !.ops = Append(@, Op(op, id, ok))]

(***************************************************************************)
(* The bot starts over the table and the channel that earlier runs left:   *)
(* nothing, one Active item, or one item closed by its "bought" button.    *)
(***************************************************************************)
FirstUser == CHOOSE u \in Users : \A v \in Users : u <= v
TheChannel == CHOOSE c \in Channels : TRUE
TheGuild == CHOOSE g \in Guilds : TRUE

SeedShop ==
    [item |-> Tea, personal |-> FALSE, quantity |-> 1, store |-> Some(Countdown),
     notes |-> Some(Ripe)]

SeedRow(bought) ==
    [Row(FirstUser, 1, TheChannel, TheGuild, SeedShop) EXCEPT !.bought = bought]

Seeds ==
    { [store |-> <<>>, messages |-> <<>>],
      [store |-> <<SeedRow(FALSE)>>,
       messages |-> <<create_new_shopping(SeedShop)>>],
      [store |-> <<SeedRow(TRUE)>>,
       messages |-> <<BoughtEdit(create_new_shopping(SeedShop).embeds[1])>>] }

Init ==
    /\ \E seed \in Seeds : store = seed.store /\ messages = seed.messages
    /\ tasks = [t \in Tasks |-> IdleTask]
    /\ delivered = 0
    /\ deleted = 0
    /\ failures = 0

(***************************************************************************)
(* Inbound events.  A /shop command carries its options; a button click    *)
(* carries the clicked message as the user saw it and the custom_id of a   *)
(* button that was enabled on it, or a custom_id the bot does not know.    *)
(***************************************************************************)
Free(t) ==
    /\ tasks[t].pc \in {"idle", "done"}
    /\ \A u \in Tasks : u < t => tasks[u].pc \notin {"idle", "done"}

\* task t starts on an event; a task that has returned keeps nothing, what is
\* left of it is dropped when the next event arrives
Start(t, task) ==
    [u \in Tasks |-> IF u = t THEN task
                     ELSE IF tasks[u].pc = "done" THEN IdleTask ELSE tasks[u]]

\* users are interchangeable: the first event is taken to come from the first
ReceiveCommand(t, user, options) ==
    /\ Free(t)
    /\ delivered < MaxEvents
    /\ delivered = 0 /\ store = <<>> => user = FirstUser
    /\ tasks' = Start(t, [IdleTask EXCEPT
                              !.pc = "try_from",
                              !.ev = [kind |-> "NewItem", user |-> user,
                                      channel_id |-> TheChannel,
                                      guild_id |-> TheGuild,
                                      options |-> options]])
    /\ delivered' = delivered + 1
    /\ UNCHANGED <<store, messages, deleted, failures>>

ReceiveClick(t, user, m, custom_id) ==
    /\ Free(t)
    /\ delivered < MaxEvents
    /\ m \in DOMAIN messages
    /\ messages[m].components # <<>>
    /\ custom_id \in EnabledButtons(messages[m]) \cup {"unknown"}
    /\ tasks' = Start(t, [IdleTask EXCEPT
                              !.pc = "answerable",
                              !.ev = [kind |-> "Click", user |-> user,
                                      channel_id |-> TheChannel,
                                      guild_id |-> TheGuild,
                                      custom_id |-> custom_id,
                                      message |-> [id |-> m,
                                                   embeds |-> messages[m].embeds,
                                                   components |-> messages[m].components]]])
    /\ delivered' = delivered + 1
    /\ UNCHANGED <<store, messages, deleted, failures>>

\* a row is removed from the table by someone other than the bot
ExternalDelete(i) ==
    /\ deleted < MaxDeletes
    /\ i \in DOMAIN store
    /\ store' = RemoveAt(store, i)
    /\ deleted' = deleted + 1
    /\ UNCHANGED <<messages, tasks, delivered, failures>>

(***************************************************************************)
(* The platform's side of the Interactable calls.                          *)
(***************************************************************************)
\* create_response(Defer): the interaction gets a loading message
PlatformDefer(t) == Append(messages, LoadingMessage)

\* create_followup: the first followup after a deferred response fills the
\* loading message, any other followup is a new message
FollowupId(t) == IF tasks[t].deferred THEN tasks[t].response ELSE Len(messages) + 1

PlatformFollowup(t, payload) ==
    IF tasks[t].deferred
    THEN [messages EXCEPT ![tasks[t].response] = payload]
    ELSE Append(messages, payload)

\* Message::edit
PlatformEdit(m, payload) == [messages EXCEPT ![m] = payload]

Errors == {None} \cup { Some(x) : x \in ErrTexts }

\* a call of the store or the platform returns Ok (e is None) or Err(e)
Fault(e) ==
    IF e = None THEN failures' = failures
    ELSE failures < MaxFailures /\ failures' = failures + 1

(***************************************************************************)
(* The /shop command: Shop::try_from, then handle_application_command.     *)
(***************************************************************************)
TryFromStep(t) ==
    /\ tasks[t].pc = "try_from"
    /\ LET r == TryFrom(tasks[t].ev.options) IN
       tasks' = [tasks EXCEPT ![t] =
           IF r[1] = "Err" THEN Finish(@, <<"Err", "String", r[2]>>)
           ELSE [@ EXCEPT !.pc = "new_defer", !.shop = Some(r[2])]]
    /\ UNCHANGED <<store, messages, delivered, deleted, failures>>

\* create_loading_message, first await: create_response(Defer)
CreateLoadingDefer(t, e) ==
    /\ tasks[t].pc \in {"new_defer", "readd_defer"}
    /\ IF e = None
       THEN /\ messages' = PlatformDefer(t)
            /\ tasks' = [tasks EXCEPT ![t] =
                   [Call(@, "create_response", Len(messages) + 1, TRUE)
                       EXCEPT !.response = Len(messages) + 1,
                              !.deferred = TRUE,
                              !.pc = IF @ = "new_defer" THEN "new_get_response"
                                     ELSE "readd_get_response"]]
       ELSE /\ messages' = messages
            /\ tasks' = [tasks EXCEPT ![t] =
                   Finish(Call(@, "create_response", 0, FALSE),
                          InternalFailureWith("error communicating with database: ",
                                              Unwrap(e)))]
    /\ UNCHANGED <<store, delivered, deleted>>
    /\ Fault(e)

\* create_loading_message, second await: get_response
CreateLoadingGetResponse(t, e) ==
    /\ tasks[t].pc \in {"new_get_response", "readd_get_response"}
    /\ tasks' = [tasks EXCEPT ![t] =
           IF e = None
           THEN [Call(@, "get_response", @.response, TRUE)
                    EXCEPT !.loading = tasks[t].response,
                           !.pc = IF @ = "new_get_response" THEN "new_followup"
                                  ELSE "readd_followup"]
           ELSE Finish(Call(@, "get_response", 0, FALSE),
                       InternalFailureWith("error communicating with database: ",
                                           Unwrap(e)))]
    /\ UNCHANGED <<store, messages, delivered, deleted>>
    /\ Fault(e)

NewItemKey_FreshId(t) == Len(messages) + 1

\* the message_id handle_application_command passes to
\* push_list_item_to_database: the id create_loading_message returned
NewItemKey(t) == tasks[t].loading

\* handle_application_command: create_new_shopping, create_followup; the row
\* is then pushed under the id of the loading message
NewFollowup(t, e) ==
    /\ tasks[t].pc = "new_followup"
    /\ IF e = None
       THEN /\ messages' = PlatformFollowup(t, create_new_shopping(Unwrap(tasks[t].shop)))
            /\ tasks' = [tasks EXCEPT ![t] =
                   [Call(@, "create_followup", FollowupId(t), TRUE)
                       EXCEPT !.deferred = FALSE,
                              !.arg = NewItemKey(t),
                              !.pc = "new_insert"]]
       ELSE /\ messages' = messages
            /\ tasks' = [tasks EXCEPT ![t] =
                   Finish(Log(Call(@, "create_followup", 0, FALSE), 465),
                          Err_NoResponse)]
    /\ UNCHANGED <<store, delivered, deleted>>
    /\ Fault(e)

PushListItem_Dedup(t, e) ==
    /\ tasks[t].pc \in {"new_insert", "readd_insert"}
    /\ LET ev == tasks[t].ev
           row == Row(ev.user, tasks[t].arg, ev.channel_id, ev.guild_id,
                      Unwrap(tasks[t].shop))
           copy == \E i \in DOMAIN store :
                      /\ ~store[i].bought
                      /\ [store[i] EXCEPT !.message_id = row.message_id,
                                          !.user_id = row.user_id] = row
           r == IF e = None THEN AddShoppingListItem(store, row)
                ELSE <<"Err", Unwrap(e)>>
       IN IF r[1] = "Ok"
          THEN /\ store' = IF copy THEN store ELSE r[2]
               /\ tasks' = [tasks EXCEPT ![t] =
                      Finish(Call(@, "insert", tasks[t].arg, TRUE), Ok_NoResponse)]
          ELSE /\ store' = store
               /\ tasks' = [tasks EXCEPT ![t] =
                      [Log(Call(@, "insert", tasks[t].arg, FALSE), 283)
                          EXCEPT !.pc = IF @ = "new_insert" THEN "new_errfollowup"
                                        ELSE "readd_errfollowup"]]
    /\ UNCHANGED <<messages, delivered, deleted>>
    /\ Fault(e)

PushListItem_HardFailure(t, e) ==
    /\ tasks[t].pc \in {"new_insert", "readd_insert"}
    /\ LET ev == tasks[t].ev
           row == Row(ev.user, tasks[t].arg, ev.channel_id, ev.guild_id,
                      Unwrap(tasks[t].shop))
           r == IF e = None THEN AddShoppingListItem(store, row)
                ELSE <<"Err", Unwrap(e)>>
       IN IF r[1] = "Ok"
          THEN /\ store' = r[2]
               /\ tasks' = [tasks EXCEPT ![t] =
                      Finish(Call(@, "insert", tasks[t].arg, TRUE), Ok_NoResponse)]
          ELSE /\ store' = store
               /\ tasks' = [tasks EXCEPT ![t] =
                      Finish(Call(@, "insert", tasks[t].arg, FALSE),
                             InternalFailureWith("error communicating with database: ",
                                                 r[2]))]
    /\ UNCHANGED <<messages, delivered, deleted>>
    /\ Fault(e)

\* push_list_item_to_database, first await: add_shopping_list_item
PushListItem(t, e) ==
    /\ tasks[t].pc \in {"new_insert", "readd_insert"}
    /\ LET ev == tasks[t].ev
           row == Row(ev.user, tasks[t].arg, ev.channel_id, ev.guild_id,
                      Unwrap(tasks[t].shop))
           r == IF e = None THEN AddShoppingListItem(store, row)
                ELSE <<"Err", Unwrap(e)>>
       IN IF r[1] = "Ok"
          THEN /\ store' = r[2]
               /\ tasks' = [tasks EXCEPT ![t] =
                      Finish(Call(@, "insert", tasks[t].arg, TRUE), Ok_NoResponse)]
          ELSE /\ store' = store
               /\ tasks' = [tasks EXCEPT ![t] =
                      [Log(Call(@, "insert", tasks[t].arg, FALSE), 283)
                          EXCEPT !.pc = IF @ = "new_insert" THEN "new_errfollowup"
                                        ELSE "readd_errfollowup"]]
    /\ UNCHANGED <<messages, delivered, deleted>>
    /\ Fault(e)

PushErrorFollowup_Responds(t, e) ==
    /\ tasks[t].pc \in {"new_errfollowup", "readd_errfollowup"}
    /\ IF e = None
       THEN /\ messages' = PlatformFollowup(t, ErrorFollowup)
            /\ tasks' = [tasks EXCEPT ![t] =
                   Finish(Call(@, "create_response", FollowupId(t), TRUE),
                          Err_NoResponse)]
       ELSE /\ messages' = messages
            /\ tasks' = [tasks EXCEPT ![t] =
                   Finish(Log(Call(@, "create_response", 0, FALSE), 293),
                          Err_NoResponse)]
    /\ UNCHANGED <<store, delivered, deleted>>
    /\ Fault(e)

\* push_list_item_to_database, second await: the followup that reports the
\* failed insert
PushErrorFollowup(t, e) ==
    /\ tasks[t].pc \in {"new_errfollowup", "readd_errfollowup"}
    /\ IF e = None
       THEN /\ messages' = PlatformFollowup(t, ErrorFollowup)
            /\ tasks' = [tasks EXCEPT ![t] =
                   Finish(Call(@, "create_followup", FollowupId(t), TRUE),
                          Err_NoResponse)]
       ELSE /\ messages' = messages
            /\ tasks' = [tasks EXCEPT ![t] =
                   Finish(Log(Call(@, "create_followup", 0, FALSE), 293),
                          Err_NoResponse)]
    /\ UNCHANGED <<store, delivered, deleted>>
    /\ Fault(e)

(***************************************************************************)
(* Button clicks: Shop::answerable decides whether Shop::interaction runs. *)
(***************************************************************************)
InteractionArm_Fallthrough(custom_id) ==
    CASE custom_id = "remove" -> "remove_set"
      [] custom_id = "readd" -> "readd_get"
      [] OTHER -> "bought_set"

\* match interaction.data.custom_id: the first step of the arm taken
InteractionArm(custom_id) ==
    CASE custom_id = "bought" -> "bought_set"
      [] custom_id = "remove" -> "remove_set"
      [] custom_id = "readd" -> "readd_get"
      [] OTHER -> "invalid"

answerable_Always(lookup) == TRUE

\* Shop::answerable: TRUE iff the lookup of the clicked message finds a row
answerable(lookup) ==
    CASE lookup = "Some" -> TRUE
      [] lookup = "None" -> FALSE
      [] OTHER -> FALSE

LookupKind(s, message_id, e) ==
    IF e # None THEN "Err"
    ELSE IF IsSome(GetByMessageId(s, message_id)) THEN "Some" ELSE "None"

Answerable(t, e) ==
    /\ tasks[t].pc = "answerable"
    /\ LET ev == tasks[t].ev
           lookup == LookupKind(store, ev.message.id, e)
           called == Call(tasks[t], "get", ev.message.id, e = None)
           logged == IF lookup = "Err" THEN Log(called, 615) ELSE called
       IN tasks' = [tasks EXCEPT ![t] =
              IF answerable(lookup)
              THEN [logged EXCEPT !.answer = lookup,
                                  !.pc = InteractionArm(ev.custom_id)]
              ELSE Finish([logged EXCEPT !.answer = lookup], NotFound)]
    /\ UNCHANGED <<store, messages, delivered, deleted>>
    /\ Fault(e)

\* the default arm
InvalidInteraction(t) ==
    /\ tasks[t].pc = "invalid"
    /\ tasks' = [tasks EXCEPT ![t] = Finish(@, InternalFailure("Invalid interaction"))]
    /\ UNCHANGED <<store, messages, delivered, deleted, failures>>

BoughtFlag_False == FALSE

\* the flag the "bought" arm writes
BoughtFlag == TRUE

RemoveFlag_False == FALSE

\* the flag the "remove" arm writes
RemoveFlag == TRUE

SetBoughtStep_IgnoresError(t, e, flag, next) ==
    /\ store' = IF e = None
                THEN SetShoppingListItemBought(store, tasks[t].ev.user,
                                               tasks[t].ev.message.id, flag)
                ELSE store
    /\ tasks' = [tasks EXCEPT ![t] =
           [Call(@, "set_bought", tasks[t].ev.message.id, e = None)
               EXCEPT !.pc = next]]
    /\ UNCHANGED <<messages, delivered, deleted>>
    /\ Fault(e)

SetBoughtStep_OwnerOnly(t, e, flag, next) ==
    /\ IF e = None
       THEN /\ store' = [i \in DOMAIN store |->
                           IF store[i].user_id = tasks[t].ev.user
                           THEN SetShoppingListItemBought(store, tasks[t].ev.user,
                                                          tasks[t].ev.message.id, flag)[i]
                           ELSE store[i]]
            /\ tasks' = [tasks EXCEPT ![t] =
                   [Call(@, "set_bought", tasks[t].ev.message.id, TRUE)
                       EXCEPT !.pc = next]]
       ELSE /\ store' = store
            /\ tasks' = [tasks EXCEPT ![t] =
                   Finish(Call(@, "set_bought", tasks[t].ev.message.id, FALSE),
                          InternalFailureWith("error communicating with database: ",
                                              Unwrap(e)))]
    /\ UNCHANGED <<messages, delivered, deleted>>
    /\ Fault(e)

\* set_shopping_list_item_bought(user_id, msg_id, flag) and its error branch
SetBoughtStep(t, e, flag, next) ==
    /\ IF e = None
       THEN /\ store' = SetShoppingListItemBought(store, tasks[t].ev.user,
                                                  tasks[t].ev.message.id, flag)
            /\ tasks' = [tasks EXCEPT ![t] =
                   [Call(@, "set_bought", tasks[t].ev.message.id, TRUE)
                       EXCEPT !.pc = next]]
       ELSE /\ store' = store
            /\ tasks' = [tasks EXCEPT ![t] =
                   Finish(Call(@, "set_bought", tasks[t].ev.message.id, FALSE),
                          InternalFailureWith("error communicating with database: ",
                                              Unwrap(e)))]
    /\ UNCHANGED <<messages, delivered, deleted>>
    /\ Fault(e)

\* the EditMessage of an arm
EditPayload(arm, ex_embed) ==
    IF arm = "bought" THEN BoughtEdit(ex_embed) ELSE RemoveEdit(ex_embed)

EditStep_RollsBack(t, e, arm, next) ==
    /\ LET msg == tasks[t].ev.message
           undone == SetShoppingListItemBought(store, tasks[t].ev.user, msg.id, FALSE)
       IN
       IF msg.embeds = <<>>
       THEN /\ e = None
            /\ messages' = messages
            /\ store' = undone
            /\ tasks' = [tasks EXCEPT ![t] =
                   Finish(@, InternalFailure("error communicating with discord"))]
       ELSE IF msg.embeds[1].description = None
       THEN /\ e = None
            /\ messages' = messages
            /\ store' = store
            /\ tasks' = [tasks EXCEPT ![t] = Finish(@, Panic("description not found"))]
       ELSE IF e = None
       THEN /\ messages' = PlatformEdit(msg.id, EditPayload(arm, msg.embeds[1]))
            /\ store' = store
            /\ tasks' = [tasks EXCEPT ![t] =
                   [Call(@, "edit", msg.id, TRUE) EXCEPT !.pc = next]]
       ELSE /\ messages' = messages
            /\ store' = undone
            /\ tasks' = [tasks EXCEPT ![t] =
                   Finish(Call(@, "edit", msg.id, FALSE),
                          InternalFailureWith("error communicating with discord: ",
                                              Unwrap(e)))]
    /\ UNCHANGED <<delivered, deleted>>
    /\ Fault(e)

\* embeds.get(0), then Message::edit with the payload built from it
EditStep(t, e, arm, next) ==
    /\ LET msg == tasks[t].ev.message IN
       IF msg.embeds = <<>>
       THEN /\ e = None
            /\ messages' = messages
            /\ tasks' = [tasks EXCEPT ![t] =
                   Finish(@, InternalFailure("error communicating with discord"))]
       ELSE IF msg.embeds[1].description = None
       THEN /\ e = None
            /\ messages' = messages
            /\ tasks' = [tasks EXCEPT ![t] = Finish(@, Panic("description not found"))]
       ELSE IF e = None
       THEN /\ messages' = PlatformEdit(msg.id, EditPayload(arm, msg.embeds[1]))
            /\ tasks' = [tasks EXCEPT ![t] =
                   [Call(@, "edit", msg.id, TRUE) EXCEPT !.pc = next]]
       ELSE /\ messages' = messages
            /\ tasks' = [tasks EXCEPT ![t] =
                   Finish(Call(@, "edit", msg.id, FALSE),
                          InternalFailureWith("error communicating with discord: ",
                                              Unwrap(e)))]
    /\ UNCHANGED <<store, delivered, deleted>>
    /\ Fault(e)

AcknowledgeStep_Retries(t, e) ==
    /\ tasks' = [tasks EXCEPT ![t] =
           IF e = None
           THEN Finish(Call(@, "create_response", 0, TRUE), Ok_NoResponse)
           ELSE Call(@, "create_response", 0, FALSE)]
    /\ UNCHANGED <<store, messages, delivered, deleted>>
    /\ Fault(e)

\* create_response(Acknowledge).unwrap()
AcknowledgeStep(t, e) ==
    /\ tasks' = [tasks EXCEPT ![t] =
           IF e = None
           THEN Finish(Call(@, "create_response", 0, TRUE), Ok_NoResponse)
           ELSE Finish(Call(@, "create_response", 0, FALSE),
                       Panic("called Result::unwrap() on an Err value"))]
    /\ UNCHANGED <<store, messages, delivered, deleted>>
    /\ Fault(e)

BoughtSetBought(t, e) ==
    /\ tasks[t].pc = "bought_set"
    /\ SetBoughtStep(t, e, BoughtFlag, "bought_edit")

BoughtEditMessage(t, e) ==
    /\ tasks[t].pc = "bought_edit"
    /\ EditStep(t, e, "bought", "bought_ack")

BoughtAcknowledge(t, e) ==
    /\ tasks[t].pc = "bought_ack"
    /\ AcknowledgeStep(t, e)

RemoveSetBought(t, e) ==
    /\ tasks[t].pc = "remove_set"
    /\ SetBoughtStep(t, e, RemoveFlag, "remove_edit")

RemoveEditMessage(t, e) ==
    /\ tasks[t].pc = "remove_edit"
    /\ EditStep(t, e, "remove", "remove_ack")

RemoveAcknowledge(t, e) ==
    /\ tasks[t].pc = "remove_ack"
    /\ AcknowledgeStep(t, e)

ReaddShop_DropsNotes(item) ==
    [item |-> item.item, personal |-> item.personal, quantity |-> item.quantity,
     store |-> item.store, notes |-> None]

\* the fields a re-added item copies from the row that was looked up
ReaddShop(item) ==
    [item |-> item.item, personal |-> item.personal, quantity |-> item.quantity,
     store |-> item.store, notes |-> item.notes]

ReaddGet_DefaultsOnNone(t, e) ==
    /\ tasks[t].pc = "readd_get"
    /\ LET msg_id == tasks[t].ev.message.id
           item == GetByMessageId(store, msg_id)
       IN tasks' = [tasks EXCEPT ![t] =
              IF e # None
              THEN Finish(Call(@, "get", msg_id, FALSE),
                          InternalFailureWith("error communicating with database: ",
                                              Unwrap(e)))
              ELSE [Call(@, "get", msg_id, TRUE)
                       EXCEPT !.shop = Some(IF item = None THEN SeedShop
                                            ELSE ReaddShop(Unwrap(item))),
                              !.pc = "readd_defer"]]
    /\ UNCHANGED <<store, messages, delivered, deleted>>
    /\ Fault(e)

\* the "readd" arm: get_shopping_list_item_by_message_id
ReaddGet(t, e) ==
    /\ tasks[t].pc = "readd_get"
    /\ LET msg_id == tasks[t].ev.message.id
           item == GetByMessageId(store, msg_id)
       IN tasks' = [tasks EXCEPT ![t] =
              IF e # None
              THEN Finish(Call(@, "get", msg_id, FALSE),
                          InternalFailureWith("error communicating with database: ",
                                              Unwrap(e)))
              ELSE IF item = None
              THEN Finish(Call(@, "get", msg_id, TRUE),
                          InternalFailure("error communicating with database"))
              ELSE [Call(@, "get", msg_id, TRUE)
                       EXCEPT !.shop = Some(ReaddShop(Unwrap(item))),
                              !.pc = "readd_defer"]]
    /\ UNCHANGED <<store, messages, delivered, deleted>>
    /\ Fault(e)

\* the "readd" arm: create_new_shopping, create_followup; the row is then
\* pushed under the id of the message the followup returned
ReaddFollowup(t, e) ==
    /\ tasks[t].pc = "readd_followup"
    /\ IF e = None
       THEN /\ messages' = PlatformFollowup(t, create_new_shopping(Unwrap(tasks[t].shop)))
            /\ tasks' = [tasks EXCEPT ![t] =
                   [Call(@, "create_followup", FollowupId(t), TRUE)
                       EXCEPT !.deferred = FALSE,
                              !.arg = FollowupId(t),
                              !.pc = "readd_insert"]]
       ELSE /\ messages' = messages
            /\ tasks' = [tasks EXCEPT ![t] =
                   Finish(Call(@, "create_followup", 0, FALSE),
                          InternalFailureWith("error communicating with discord: ",
                                              Unwrap(e)))]
    /\ UNCHANGED <<store, delivered, deleted>>
    /\ Fault(e)

Next ==
    \/ \E t \in Tasks, u \in Users, o \in Requests : ReceiveCommand(t, u, o)
    \/ \E t \in Tasks, u \in Users, m \in DOMAIN messages,
          c \in {"bought", "remove", "readd", "unknown"} : ReceiveClick(t, u, m, c)
    \/ \E i \in DOMAIN store : ExternalDelete(i)
    \/ \E t \in Tasks : TryFromStep(t)
    \/ \E t \in Tasks, e \in Errors : CreateLoadingDefer(t, e)
    \/ \E t \in Tasks, e \in Errors : CreateLoadingGetResponse(t, e)
    \/ \E t \in Tasks, e \in Errors : NewFollowup(t, e)
    \/ \E t \in Tasks, e \in Errors : PushListItem(t, e)
    \/ \E t \in Tasks, e \in Errors : PushErrorFollowup(t, e)
    \/ \E t \in Tasks, e \in Errors : Answerable(t, e)
    \/ \E t \in Tasks : InvalidInteraction(t)
    \/ \E t \in Tasks, e \in Errors : BoughtSetBought(t, e)
    \/ \E t \in Tasks, e \in Errors : BoughtEditMessage(t, e)
    \/ \E t \in Tasks, e \in Errors : BoughtAcknowledge(t, e)
    \/ \E t \in Tasks, e \in Errors : RemoveSetBought(t, e)
    \/ \E t \in Tasks, e \in Errors : RemoveEditMessage(t, e)
    \/ \E t \in Tasks, e \in Errors : RemoveAcknowledge(t, e)
    \/ \E t \in Tasks, e \in Errors : ReaddGet(t, e)
    \/ \E t \in Tasks, e \in Errors : ReaddFollowup(t, e)

Spec == Init /\ [][Next]_vars

(***************************************************************************)
(* The suggestion ranker: Shop::autocomplete.  The names it ranks are the  *)
(* item or store names of the recent rows and of a fixed list.             *)
(***************************************************************************)
EXTRA_STORE_NAMES ==
    << <<"P", "a", "c", "k", "'", "n", "'", "S", "a", "v", "e">>,
       <<"C", "o", "u", "n", "t", "d", "o", "w", "n">>,
       <<"B", "u", "n", "n", "i", "n", "g", "s">>,
       <<"M", "i", "t", "r", "e", " ", "1", "0">>,
       <<"T", "h", "e", " ", "W", "a", "r", "e", "h", "o", "u", "s", "e">>,
       <<"K", "m", "a", "r", "t">>,
       <<"F", "a", "r", "m", "e", "r", "s">> >>

EXTRA_ITEMS ==
    << <<"m", "i", "l", "k", " ", "2", "L">>,
       <<"l", "o", "a", "f", " ", "o", "f", " ", "b", "r", "e", "a", "d">>,
       <<"1", "2", " ", "e", "g", "g", "s">>,
       <<"c", "h", "e", "e", "s", "e", " ", "1", "k", "g">>,
       <<"b", "u", "t", "t", "e", "r">>,
       <<"c", "h", "o", "c", "o", "l", "a", "t", "e">>,
       <<"c", "o", "f", "f", "e", "e">>,
       <<"t", "e", "a">>,
       <<"s", "u", "g", "a", "r">>,
       <<"f", "l", "o", "u", "r">>,
       <<"o", "i", "l">>,
       <<"x", "2", " ", "c", "a", "n", " ", "o", "f", " ", "t", "o", "m", "a", "t", "o", "e", "s">>,
       <<"f", "r", "e", "s", "h", " ", "t", "o", "m", "a", "t", "o", "e", "s">>,
       <<"c", "h", "e", "r", "r", "y", " ", "t", "o", "m", "a", "t", "o", "e", "s">>,
       <<"b", "r", "o", "w", "n", " ", "o", "n", "i", "o", "n", "s">>,
       <<"r", "e", "d", " ", "o", "n", "i", "o", "n", "s">>,
       <<"p", "o", "t", "a", "t", "o", "e", "s">>,
       <<"c", "a", "r", "r", "o", "t", "s">>,
       <<"g", "e", "n", "e", "r", "a", "l", " ", "f", "r", "u", "i", "t", " ", "a", "n", "d", " ", "v", "e", "g", "e">>,
       <<"c", "h", "i", "c", "k", "e", "n", " ", "b", "r", "e", "a", "s", "t", " ", "5", "0", "0", "g">>,
       <<"b", "e", "e", "f", " ", "m", "i", "n", "c", "e", " ", "5", "0", "0", "g">>,
       <<"p", "o", "r", "k", " ", "m", "i", "n", "e", " ", "5", "0", "0", "g">>,
       <<"w", "h", "i", "t", "e", " ", "f", "i", "s", "h">>,
       <<"h", "o", "k", "i", " ", "c", "r", "u", "m", "b", "e", "d", " ", "f", "i", "s", "h">>,
       <<"o", "r", "a", "n", "g", "e", " ", "j", "u", "i", "c", "e", " ", "(", "p", "u", "l", "p", ")">>,
       <<"o", "r", "a", "n", "g", "e", " ", "j", "u", "i", "c", "e", " ", "(", "n", "o", " ", "p", "u", "l", "p", ")">>,
       <<"t", "o", "i", "l", "e", "t", " ", "p", "a", "p", "e", "r">>,
       <<"p", "a", "p", "e", "r", " ", "t", "o", "w", "e", "l", "s">>,
       <<"d", "i", "s", "h", "w", "a", "s", "h", "i", "n", "g", " ", "l", "i", "q", "u", "i", "d">>,
       <<"d", "i", "s", "h", "w", "a", "s", "h", "e", "r", " ", "p", "o", "w", "d", "e", "r">>,
       <<"w", "a", "s", "h", "i", "n", "g", " ", "p", "o", "w", "d", "e", "r">>,
       <<"n", "a", "p", "i", "s", "a", "n", " ", "p", "o", "w", "d", "e", "r">>,
       <<"b", "l", "e", "a", "c", "h">>,
       <<"t", "o", "o", "t", "h", "p", "a", "s", "t", "e">>,
       <<"t", "o", "o", "t", "h", "b", "r", "u", "s", "h">>,
       <<"s", "h", "a", "m", "p", "o", "o">>,
       <<"c", "o", "n", "d", "i", "t", "i", "o", "n", "e", "r">>,
       <<"s", "o", "a", "p">>,
       <<"d", "e", "o", "d", "o", "r", "a", "n", "t">>,
       <<"r", "a", "z", "o", "r", "s">>,
       <<"s", "h", "a", "v", "i", "n", "g", " ", "c", "r", "e", "a", "m">>,
       <<"h", "a", "i", "r", " ", "g", "e", "l">>,
       <<"b", "a", "n", "d", "-", "a", "i", "d", "s">>,
       <<"p", "a", "i", "n", "k", "i", "l", "l", "e", "r", "s">>,
       <<"a", "n", "t", "i", "b", "i", "o", "t", "i", "c", "s">>,
       <<"v", "i", "t", "a", "m", "i", "n", "s">>,
       <<"p", "r", "o", "t", "e", "i", "n", " ", "p", "o", "w", "d", "e", "r">>,
       <<"b", "a", "n", "a", "n", "a">>,
       <<"a", "p", "p", "l", "e">>,
       <<"o", "r", "a", "n", "g", "e">>,
       <<"k", "i", "w", "i", " ", "f", "r", "u", "i", "t">>,
       <<"l", "e", "m", "o", "n">>,
       <<"l", "i", "m", "e">>,
       <<"a", "v", "o", "c", "a", "d", "o">>,
       <<"c", "u", "c", "u", "m", "b", "e", "r">>,
       <<"l", "e", "t", "t", "u", "c", "e">>,
       <<"c", "a", "p", "s", "i", "c", "u", "m">>,
       <<"z", "u", "c", "c", "h", "i", "n", "i">>,
       <<"b", "r", "o", "c", "c", "o", "l", "i">>,
       <<"c", "a", "u", "l", "i", "f", "l", "o", "w", "e", "r">>,
       <<"a", "s", "p", "a", "r", "a", "g", "u", "s">>,
       <<"c", "o", "r", "n">>,
       <<"m", "u", "s", "h", "r", "o", "o", "m", "s">>,
       <<"s", "p", "i", "n", "a", "c", "h">>,
       <<"t", "o", "m", "a", "t", "o">> >>

\* the characters of the names, in increasing order of their byte
ByteOrder ==
    << " ", "'", "(", ")", "-", "0", "1", "2", "3", "4", "5", "6", "7",
       "8", "9", "A", "B", "C", "D", "E", "F", "G", "H", "I", "J", "K",
       "L", "M", "N", "O", "P", "Q", "R", "S", "T", "U", "V", "W", "X",
       "Y", "Z", "a", "b", "c", "d", "e", "f", "g", "h", "i", "j", "k",
       "l", "m", "n", "o", "p", "q", "r", "s", "t", "u", "v", "w", "x",
       "y", "z" >>

Byte(c) == CHOOSE i \in DOMAIN ByteOrder : ByteOrder[i] = c

Range(f) == { f[i] : i \in DOMAIN f }

\* str::starts_with
starts_with(a, p) == Len(p) <= Len(a) /\ SubSeq(a, 1, Len(p)) = p

\* str::contains
contains(a, p) ==
    \E i \in 1..(Len(a) - Len(p) + 1) : SubSeq(a, i, i + Len(p) - 1) = p

cmp_Descending(a, b) ==
    LET n == IF Len(a) < Len(b) THEN Len(a) ELSE Len(b)
        d == { i \in 1..n : a[i] # b[i] }
    IN IF d = {}
       THEN IF Len(a) < Len(b) THEN "Greater"
            ELSE IF Len(a) > Len(b) THEN "Less" ELSE "Equal"
       ELSE LET k == CHOOSE i \in d : \A j \in d : i <= j
            IN IF Byte(a[k]) < Byte(b[k]) THEN "Greater" ELSE "Less"

\* Ord for String: lexicographic by bytes
cmp(a, b) ==
    LET n == IF Len(a) < Len(b) THEN Len(a) ELSE Len(b)
        d == { i \in 1..n : a[i] # b[i] }
    IN IF d = {}
       THEN IF Len(a) < Len(b) THEN "Less"
            ELSE IF Len(a) > Len(b) THEN "Greater" ELSE "Equal"
       ELSE LET k == CHOOSE i \in d : \A j \in d : i <= j
            IN IF Byte(a[k]) < Byte(b[k]) THEN "Less" ELSE "Greater"

compare_NoStartTier(a, b, p) ==
    LET a_contains == contains(a, p)
        b_contains == contains(b, p)
    IN IF a_contains /\ ~b_contains THEN "Less"
       ELSE IF ~a_contains /\ b_contains THEN "Greater"
       ELSE cmp(a, b)

compare_NoContainsTier(a, b, p) ==
    LET a_start == starts_with(a, p)
        b_start == starts_with(b, p)
    IN IF a_start /\ ~b_start THEN "Less"
       ELSE IF ~a_start /\ b_start THEN "Greater"
       ELSE cmp(a, b)

compare_NoTieBreak(a, b, p) ==
    LET a_start == starts_with(a, p)
        b_start == starts_with(b, p)
        a_contains == contains(a, p)
        b_contains == contains(b, p)
    IN IF a_start /\ ~b_start THEN "Less"
       ELSE IF ~a_start /\ b_start THEN "Greater"
       ELSE IF a_contains /\ ~b_contains THEN "Less"
       ELSE IF ~a_contains /\ b_contains THEN "Greater"
       ELSE "Equal"

\* the closure given to sort_by, search_phrase being p
compare(a, b, p) ==
    LET a_start == starts_with(a, p)
        b_start == starts_with(b, p)
        a_contains == contains(a, p)
        b_contains == contains(b, p)
    IN IF a_start /\ ~b_start THEN "Less"
       ELSE IF ~a_start /\ b_start THEN "Greater"
       ELSE IF a_contains /\ ~b_contains THEN "Less"
       ELSE IF ~a_contains /\ b_contains THEN "Greater"
       ELSE cmp(a, b)

\* slice::sort_by is a stable sort: v[i] comes after the elements that
\* compare Less than it and the earlier elements that compare Equal to it
sort_by(v, p) ==
    LET n == Len(v)
        before == { ij \in (1..n) \X (1..n) :
                      LET c == compare(v[ij[1]], v[ij[2]], p)
                      IN c = "Less" \/ (c = "Equal" /\ ij[1] < ij[2]) }
        pos == { <<i, 1 + Cardinality({ j \in 1..n : <<j, i>> \in before })>> :
                 i \in 1..n }
    IN [k \in 1..n |-> v[CHOOSE i \in 1..n : <<i, k>> \in pos]]

MaxChoices == 25
RecentLimit == 50

truncate_KeepsAll(v, n) == v

\* Vec::truncate
truncate(v, n) == IF Len(v) <= n THEN v ELSE SubSeq(v, 1, n)

Reverse(v) == [i \in 1..Len(v) |-> v[Len(v) + 1 - i]]

\* get_recent_shopping_list_items: the newest rows first, limit at most
RecentItems(s, limit) == truncate(Reverse(s), limit)

\* get_recent_shopping_list_items_by_user
RecentItemsByUser(s, user_id, limit) ==
    truncate(SelectSeq(Reverse(s), LAMBDA row : row.user_id = user_id), limit)

\* for item in extra_items { if !items.contains(&item) { items.push(item) } }
MergeItems(items, extra_items) ==
    items \o SelectSeq(extra_items, LAMBDA row : row \notin Range(items))

\* the elements of v, each once, in the order of their first occurrence
RECURSIVE Distinct(_)
Distinct(v) ==
    IF v = <<>> THEN <<>>
    ELSE LET d == Distinct(SubSeq(v, 1, Len(v) - 1))
         IN IF v[Len(v)] \in Range(d) THEN d ELSE Append(d, v[Len(v)])

\* items.into_iter().map(|item| item.item)
ItemsOf(items) == [i \in DOMAIN items |-> items[i].item]

\* items.into_iter().filter_map(|item| item.store)
StoresOf(items) ==
    LET with_store == SelectSeq(items, LAMBDA row : IsSome(row.store))
    IN [i \in DOMAIN with_store |-> Unwrap(with_store[i].store)]

HashSetOf_NoExtra(names, extra) == Distinct(names)

\* the HashSet collected from the rows' names and extended with the fixed
\* list, as the sequence of its elements in the order they went in
HashSetOf(names, extra) ==
    Distinct(names) \o SelectSeq(extra, LAMBDA x : x \notin Range(names))

\* the order in which a HashSet hands out its elements is the hasher's
HashOrders == {"forward", "reverse"}

IntoIter(set, hasher) == IF hasher = "forward" THEN set ELSE Reverse(set)

\* the names ranked for a field
CandidatesOf(items, name) ==
    IF name = "item" THEN HashSetOf(ItemsOf(items), EXTRA_ITEMS)
    ELSE HashSetOf(StoresOf(items), EXTRA_STORE_NAMES)

\* sort_by, truncate(25), and the choices made of the names
Choices(items, name, search_phrase, hasher) ==
    truncate(sort_by(IntoIter(CandidatesOf(items, name), hasher), search_phrase),
             MaxChoices)

Ok_Choices(choices) == <<"Ok", "Choices", choices>>

(***************************************************************************)
(* Autocomplete requests.  The handler only reads the table, so requests   *)
(* are taken one at a time, over a table that earlier commands filled.     *)
(***************************************************************************)
Cheese1kg == <<"c", "h", "e", "e", "s", "e", " ", "1", "k", "g">>
Chocolate == <<"c", "h", "o", "c", "o", "l", "a", "t", "e">>
Chips == <<"c", "h", "i", "p", "s">>
Peach == <<"p", "e", "a", "c", "h">>
Chemist == <<"c", "h", "e", "m", "i", "s", "t">>
BeachMart == <<"B", "e", "a", "c", "h", " ", "M", "a", "r", "t">>

Item(item, store_name) ==
    [item |-> item, personal |-> FALSE, quantity |-> 1, store |-> store_name,
     notes |-> None]

SecondUser == CHOOSE u \in Users : u # FirstUser

ManyRows == 20

AutoTables ==
    { <<>>,
      << Row(FirstUser, 1, TheChannel, TheGuild, Item(Cheese1kg, Some(Countdown))),
         Row(SecondUser, 2, TheChannel, TheGuild, Item(Chocolate, None)),
         Row(FirstUser, 3, TheChannel, TheGuild, Item(Milk2L, None)) >>,
      << Row(FirstUser, 1, TheChannel, TheGuild, Item(Chips, Some(Chemist))),
         Row(SecondUser, 2, TheChannel, TheGuild, Item(Peach, Some(BeachMart))),
         Row(SecondUser, 3, TheChannel, TheGuild, Item(Chips, Some(Chemist))) >>,
      [i \in 1..ManyRows |->
         Row(IF i % 2 = 1 THEN FirstUser ELSE SecondUser, i, TheChannel, TheGuild,
             Item(<<"i", "t", "e", "m", " ">> \o Display(i),
                  Some(<<"s", "h", "o", "p", " ">> \o Display(i))))] }

SearchPhrases == { <<>>, <<"c", "h">>, <<"s", "h">> }

OptionNames == {"item", "store", "notes"}

AutoInit ==
    /\ store \in AutoTables
    /\ messages = <<>>
    /\ tasks = [t \in Tasks |-> IdleTask]
    /\ delivered = 0
    /\ deleted = 0
    /\ failures = 0

ReceiveAutocomplete(t, user, name, value) ==
    /\ Free(t)
    /\ \A u \in Tasks : tasks[u].pc \in {"idle", "done"}
    /\ delivered < MaxEvents
    /\ tasks' = Start(t, [IdleTask EXCEPT
                              !.pc = "auto_by_user",
                              !.ev = [kind |-> "Autocomplete", user |-> user,
                                      channel_id |-> TheChannel,
                                      guild_id |-> TheGuild,
                                      name |-> name, value |-> value]])
    /\ delivered' = delivered + 1
    /\ UNCHANGED <<store, messages, deleted, failures>>

AutocompleteByUser_Drains(t, e) ==
    /\ tasks[t].pc = "auto_by_user"
    /\ tasks' = [tasks EXCEPT ![t] =
           IF e = None
           THEN [Call(@, "recent_by_user", 0, TRUE)
                    EXCEPT !.items = RecentItemsByUser(store, tasks[t].ev.user,
                                                       RecentLimit),
                           !.pc = "auto_recent"]
           ELSE Finish(Call(@, "recent_by_user", 0, FALSE),
                       InternalFailureWith("error communicating with database: ",
                                           Unwrap(e)))]
    /\ store' = IF e = None
                THEN SelectSeq(store, LAMBDA row : row.user_id # tasks[t].ev.user)
                ELSE store
    /\ UNCHANGED <<messages, delivered, deleted>>
    /\ Fault(e)

\* first await: get_recent_shopping_list_items_by_user(user_id, 50)
AutocompleteByUser(t, e) ==
    /\ tasks[t].pc = "auto_by_user"
    /\ tasks' = [tasks EXCEPT ![t] =
           IF e = None
           THEN [Call(@, "recent_by_user", 0, TRUE)
                    EXCEPT !.items = RecentItemsByUser(store, tasks[t].ev.user,
                                                       RecentLimit),
                           !.pc = "auto_recent"]
           ELSE Finish(Call(@, "recent_by_user", 0, FALSE),
                       InternalFailureWith("error communicating with database: ",
                                           Unwrap(e)))]
    /\ UNCHANGED <<store, messages, delivered, deleted>>
    /\ Fault(e)

\* second await: get_recent_shopping_list_items(50); then the merge and the
\* arm of match autocomplete.name
AutocompleteRank(t, e, hasher) ==
    /\ tasks[t].pc = "auto_recent"
    /\ LET ev == tasks[t].ev
           items == MergeItems(tasks[t].items, RecentItems(store, RecentLimit))
       IN tasks' = [tasks EXCEPT ![t] =
              IF e # None
              THEN Finish(Call(@, "recent", 0, FALSE),
                          InternalFailureWith("error communicating with database: ",
                                              Unwrap(e)))
              ELSE IF ev.name \in {"item", "store"}
              THEN Finish([Call(@, "recent", 0, TRUE)
                              EXCEPT !.items = items, !.hasher = hasher],
                          Ok_Choices(Choices(items, ev.name, ev.value, hasher)))
              ELSE Finish([Call(@, "recent", 0, TRUE) EXCEPT !.items = items],
                          InternalFailure("Invalid autocomplete option"))]
    /\ UNCHANGED <<store, messages, delivered, deleted>>
    /\ Fault(e)

AutoNext ==
    \/ \E t \in Tasks, u \in Users, n \in OptionNames, v \in SearchPhrases :
          ReceiveAutocomplete(t, u, n, v)
    \/ \E t \in Tasks, e \in Errors : AutocompleteByUser(t, e)
    \/ \E t \in Tasks, e \in Errors, h \in HashOrders : AutocompleteRank(t, e, h)

AutocompleteSpec == AutoInit /\ [][AutoNext]_vars

(***************************************************************************)
(* The /shop command over every shape of request the command schema lets  *)
(* through: each option present or absent, quantity at either end of its   *)
(* choices.  Events are handled one after the other here.                  *)
(***************************************************************************)
MinQuantity == 1
MaxQuantity == 25

SchemaRequests ==
    { [item |-> i, personal |-> p, quantity |-> q, store |-> None, notes |-> n] :
        i \in {None, Some(Milk2L)},
        p \in {None, Some(TRUE)},
        q \in {None, Some(MinQuantity), Some(MaxQuantity)},
        n \in {None, Some(Ripe)} }

Quiet == \A u \in Tasks : tasks[u].pc \in {"idle", "done"}

\* an Active item whose message has had its embeds suppressed in the channel:
\* the buttons are still there, the embed is not
SuppressedSeed ==
    [store |-> <<SeedRow(FALSE)>>,
     messages |-> << [create_new_shopping(SeedShop) EXCEPT !.embeds = <<>>] >>]

CommandInit ==
    /\ \E seed \in Seeds \cup {SuppressedSeed} :
          store = seed.store /\ messages = seed.messages
    /\ tasks = [t \in Tasks |-> IdleTask]
    /\ delivered = 0
    /\ deleted = 0
    /\ failures = 0

CommandNext ==
    \/ \E t \in Tasks, u \in Users, o \in SchemaRequests :
          Quiet /\ ReceiveCommand(t, u, o)
    \/ \E t \in Tasks, u \in Users, m \in DOMAIN messages,
          c \in {"bought", "remove", "readd", "unknown"} :
          Quiet /\ ReceiveClick(t, u, m, c)
    \/ \E t \in Tasks : TryFromStep(t)
    \/ \E t \in Tasks, e \in Errors : CreateLoadingDefer(t, e)
    \/ \E t \in Tasks, e \in Errors : CreateLoadingGetResponse(t, e)
    \/ \E t \in Tasks, e \in Errors : NewFollowup(t, e)
    \/ \E t \in Tasks, e \in Errors : PushListItem(t, e)
    \/ \E t \in Tasks, e \in Errors : PushErrorFollowup(t, e)
    \/ \E t \in Tasks, e \in Errors : Answerable(t, e)
    \/ \E t \in Tasks : InvalidInteraction(t)
    \/ \E t \in Tasks, e \in Errors : BoughtSetBought(t, e)
    \/ \E t \in Tasks, e \in Errors : BoughtEditMessage(t, e)
    \/ \E t \in Tasks, e \in Errors : BoughtAcknowledge(t, e)
    \/ \E t \in Tasks, e \in Errors : RemoveSetBought(t, e)
    \/ \E t \in Tasks, e \in Errors : RemoveEditMessage(t, e)
    \/ \E t \in Tasks, e \in Errors : RemoveAcknowledge(t, e)
    \/ \E t \in Tasks, e \in Errors : ReaddGet(t, e)
    \/ \E t \in Tasks, e \in Errors : ReaddFollowup(t, e)

CommandSpec == CommandInit /\ [][CommandNext]_vars

(***************************************************************************)
(* Autocomplete requests among the lifecycle events: a request is taken,   *)
(* and commands and clicks are handled while it is being handled and after *)
(* it.  The fields are those whose candidates are few, so that the steps   *)
(* of the two kinds of handling can be interleaved in every order.         *)
(***************************************************************************)
InterleavedNames == {"store", "notes"}

AutoInFlight == \E u \in Tasks : tasks[u].ev.kind = "Autocomplete"

InterleavedNext ==
    \/ \E t \in Tasks, u \in Users, n \in InterleavedNames, v \in SearchPhrases :
          ReceiveAutocomplete(t, u, n, v)
    \/ \E t \in Tasks, e \in Errors : AutocompleteByUser(t, e)
    \/ \E t \in Tasks, e \in Errors, h \in HashOrders : AutocompleteRank(t, e, h)
    \/ \E t \in Tasks, u \in Users, o \in Requests :
          AutoInFlight /\ ReceiveCommand(t, u, o)
    \/ \E t \in Tasks, u \in Users, m \in DOMAIN messages,
          c \in {"bought", "remove", "readd", "unknown"} :
          AutoInFlight /\ ReceiveClick(t, u, m, c)
    \/ \E t \in Tasks : TryFromStep(t)
    \/ \E t \in Tasks, e \in Errors : CreateLoadingDefer(t, e)
    \/ \E t \in Tasks, e \in Errors : CreateLoadingGetResponse(t, e)
    \/ \E t \in Tasks, e \in Errors : NewFollowup(t, e)
    \/ \E t \in Tasks, e \in Errors : PushListItem(t, e)
    \/ \E t \in Tasks, e \in Errors : PushErrorFollowup(t, e)
    \/ \E t \in Tasks, e \in Errors : Answerable(t, e)
    \/ \E t \in Tasks : InvalidInteraction(t)
    \/ \E t \in Tasks, e \in Errors : BoughtSetBought(t, e)
    \/ \E t \in Tasks, e \in Errors : BoughtEditMessage(t, e)
    \/ \E t \in Tasks, e \in Errors : BoughtAcknowledge(t, e)
    \/ \E t \in Tasks, e \in Errors : RemoveSetBought(t, e)
    \/ \E t \in Tasks, e \in Errors : RemoveEditMessage(t, e)
    \/ \E t \in Tasks, e \in Errors : RemoveAcknowledge(t, e)
    \/ \E t \in Tasks, e \in Errors : ReaddGet(t, e)
    \/ \E t \in Tasks, e \in Errors : ReaddFollowup(t, e)

InterleavedSpec == Init /\ [][InterleavedNext]_vars

(***************************************************************************)
(* Clicks as the handler receives them: the custom_id of an interaction is *)
(* data of the request, and Shop::interaction matches on it without        *)
(* looking at the buttons of the clicked message.  Here a click carries    *)
(* the custom_id of any button of the message, enabled or disabled, or one *)
(* the bot does not know.  Events are handled one after the other.         *)
(***************************************************************************)
ButtonsOf(msg) == { msg.components[i].custom_id : i \in DOMAIN msg.components }

ReceiveAnyClick(t, user, m, custom_id) ==
    /\ Free(t)
    /\ delivered < MaxEvents
    /\ m \in DOMAIN messages
    /\ messages[m].components # <<>>
    /\ custom_id \in ButtonsOf(messages[m]) \cup {"unknown"}
    /\ tasks' = Start(t, [IdleTask EXCEPT
                              !.pc = "answerable",
                              !.ev = [kind |-> "Click", user |-> user,
                                      channel_id |-> TheChannel,
                                      guild_id |-> TheGuild,
                                      custom_id |-> custom_id,
                                      message |-> [id |-> m,
                                                   embeds |-> messages[m].embeds,
                                                   components |-> messages[m].components]]])
    /\ delivered' = delivered + 1
    /\ UNCHANGED <<store, messages, deleted, failures>>

AnyClickNext ==
    \/ \E t \in Tasks, u \in Users, o \in Requests :
          Quiet /\ ReceiveCommand(t, u, o)
    \/ \E t \in Tasks, u \in Users, m \in DOMAIN messages,
          c \in {"bought", "remove", "readd", "unknown"} :
          Quiet /\ ReceiveAnyClick(t, u, m, c)
    \/ \E t \in Tasks : TryFromStep(t)
    \/ \E t \in Tasks, e \in Errors : CreateLoadingDefer(t, e)
    \/ \E t \in Tasks, e \in Errors : CreateLoadingGetResponse(t, e)
    \/ \E t \in Tasks, e \in Errors : NewFollowup(t, e)
    \/ \E t \in Tasks, e \in Errors : PushListItem(t, e)
    \/ \E t \in Tasks, e \in Errors : PushErrorFollowup(t, e)
    \/ \E t \in Tasks, e \in Errors : Answerable(t, e)
    \/ \E t \in Tasks : InvalidInteraction(t)
    \/ \E t \in Tasks, e \in Errors : BoughtSetBought(t, e)
    \/ \E t \in Tasks, e \in Errors : BoughtEditMessage(t, e)
    \/ \E t \in Tasks, e \in Errors : BoughtAcknowledge(t, e)
    \/ \E t \in Tasks, e \in Errors : RemoveSetBought(t, e)
    \/ \E t \in Tasks, e \in Errors : RemoveEditMessage(t, e)
    \/ \E t \in Tasks, e \in Errors : RemoveAcknowledge(t, e)
    \/ \E t \in Tasks, e \in Errors : ReaddGet(t, e)
    \/ \E t \in Tasks, e \in Errors : ReaddFollowup(t, e)

AnyClickSpec == Init /\ [][AnyClickNext]_vars

(***************************************************************************)
(* Bought and remove clicks under fair scheduling: the runtime keeps       *)
(* polling every task, and every call a handler awaits returns, Ok or Err, *)
(* so a task that is at a step takes it.  Nothing obliges an event to      *)
(* arrive.                                                                 *)
(***************************************************************************)
CloseNext ==
    \/ \E t \in Tasks, u \in Users, m \in DOMAIN messages, c \in {"bought", "remove"} :
          ReceiveClick(t, u, m, c)
    \/ \E t \in Tasks, e \in Errors : Answerable(t, e)
    \/ \E t \in Tasks, e \in Errors : BoughtSetBought(t, e)
    \/ \E t \in Tasks, e \in Errors : BoughtEditMessage(t, e)
    \/ \E t \in Tasks, e \in Errors : BoughtAcknowledge(t, e)
    \/ \E t \in Tasks, e \in Errors : RemoveSetBought(t, e)
    \/ \E t \in Tasks, e \in Errors : RemoveEditMessage(t, e)
    \/ \E t \in Tasks, e \in Errors : RemoveAcknowledge(t, e)

\* the steps of the handling of a click by task t
CloseStep(t) ==
    \E e \in Errors :
        \/ Answerable(t, e)
        \/ BoughtSetBought(t, e)
        \/ BoughtEditMessage(t, e)
        \/ BoughtAcknowledge(t, e)
        \/ RemoveSetBought(t, e)
        \/ RemoveEditMessage(t, e)
        \/ RemoveAcknowledge(t, e)

FairCloseSpec ==
    /\ Init
    /\ [][CloseNext]_vars
    /\ \A t \in Tasks : WF_vars(CloseStep(t))

(***************************************************************************)
(* Vocabulary of the properties.                                           *)
(***************************************************************************)
IsClick(t, custom_id) ==
    tasks[t].ev.kind = "Click" /\ tasks[t].ev.custom_id = custom_id

\* task t takes a step of the handling of its current event
Steps(t) == tasks'[t] # tasks[t] /\ tasks'[t].ev = tasks[t].ev /\ tasks[t].pc # "done"

\* task t ends the handling of its event in this step, with result r
Ends(t, r) == Steps(t) /\ tasks'[t].pc = "done" /\ tasks'[t].result = r

OpsOf(task, op) == { i \in DOMAIN task.ops : task.ops[i].op = op /\ task.ops[i].ok }

LastRow(s) == s[Len(s)]

SameItem(a, b) ==
    /\ a.item = b.item
    /\ a.personal = b.personal
    /\ a.quantity = b.quantity
    /\ a.store = b.store
    /\ a.notes = b.notes

IsItemMessage(msg) == msg.embeds # <<>> /\ msg.components # <<>>

(***************************************************************************)
(* C1.  A /shop command whose handling succeeds adds exactly one row to    *)
(* the table and renders exactly one item message, and the row's           *)
(* message_id is the id of that message.                                   *)
(***************************************************************************)
C1_NewItemOneRowOneMessage ==
    [][\A t \in Tasks :
         tasks[t].ev.kind = "NewItem" /\ Ends(t, Ok_NoResponse) =>
           LET done == tasks'[t] IN
           /\ Len(store') = Len(store) + 1
           /\ SubSeq(store', 1, Len(store)) = store
           /\ Cardinality(OpsOf(done, "insert")) = 1
           /\ Cardinality(OpsOf(done, "create_followup")) = 1
           /\ \A j \in OpsOf(done, "create_followup") :
                /\ LastRow(store').message_id = done.ops[j].id
                /\ IsItemMessage(messages'[done.ops[j].id])
           /\ Cardinality(RowsOf(store', LastRow(store').message_id)) = 1]_vars

C1_Witness ==
    \E t \in Tasks :
        /\ tasks[t].ev.kind = "NewItem"
        /\ tasks[t].pc = "done"
        /\ tasks[t].result = Ok_NoResponse
        /\ \E i \in DOMAIN store : store[i].message_id = tasks[t].arg

(***************************************************************************)
(* C2.  A row whose bought flag is true never has it false again and none  *)
(* of its other fields changes, whatever events are handled and however    *)
(* their steps interleave: as long as the table holds a row for that       *)
(* message it is the same row.                                             *)
(***************************************************************************)
C2_ClosedRowImmutable ==
    [][\A i \in DOMAIN store :
         store[i].bought =>
           \A j \in RowsOf(store', store[i].message_id) : store'[j] = store[i]]_vars

\* a readd of a closed item has completed: the closed row is still closed and
\* a new row stands beside it
C2_Witness ==
    \E t \in Tasks :
        /\ IsClick(t, "readd")
        /\ tasks[t].pc = "done"
        /\ tasks[t].result = Ok_NoResponse
        /\ \E i \in RowsOf(store, tasks[t].ev.message.id) : store[i].bought
        /\ \E j \in RowsOf(store, tasks[t].arg) : ~store[j].bought

(***************************************************************************)
(* C3.  A second set_bought(u, m, true), by a bought or a remove click on  *)
(* a message whose row is already bought, leaves the table as it was.      *)
(***************************************************************************)
C3_SetBoughtIdempotent ==
    [][\A t \in Tasks :
         /\ tasks[t].pc \in {"bought_set", "remove_set"}
         /\ Steps(t)
         /\ OpsOf(tasks'[t], "set_bought") # {}
         /\ RowsOf(store, tasks[t].ev.message.id) # {}
         /\ \A i \in RowsOf(store, tasks[t].ev.message.id) : store[i].bought
         => store' = store]_vars

\* both tasks have set the flag of the same message
C3_Witness ==
    \E t, u \in Tasks :
        /\ t # u
        /\ tasks[t].ev.kind = "Click" /\ tasks[u].ev.kind = "Click"
        /\ tasks[t].ev.message.id = tasks[u].ev.message.id
        /\ OpsOf(tasks[t], "set_bought") # {}
        /\ OpsOf(tasks[u], "set_bought") # {}
        /\ \E i \in RowsOf(store, tasks[t].ev.message.id) : store[i].bought

(***************************************************************************)
(* C4.  A readd click whose lookup, acknowledgement, render and insert     *)
(* succeed adds one row with bought = false, whose item, personal,         *)
(* quantity, store and notes are those of the row of the clicked message   *)
(* and whose message_id is the id of the newly rendered message, not the   *)
(* id of the clicked one.                                                  *)
(***************************************************************************)
C4_ReaddCopiesFields ==
    [][\A t \in Tasks :
         IsClick(t, "readd") /\ Ends(t, Ok_NoResponse) =>
           LET done == tasks'[t]
               new == LastRow(store')
           IN
           /\ Len(store') = Len(store) + 1
           /\ SubSeq(store', 1, Len(store)) = store
           /\ new.bought = FALSE
           /\ \A i \in RowsOf(store, tasks[t].ev.message.id) : SameItem(new, store[i])
           /\ new.message_id # tasks[t].ev.message.id
           /\ \A j \in OpsOf(done, "create_followup") :
                /\ new.message_id = done.ops[j].id
                /\ messages'[done.ops[j].id] = create_new_shopping(new)
           /\ OpsOf(done, "create_followup") # {}]_vars

C4_Witness ==
    \E t \in Tasks :
        /\ IsClick(t, "readd")
        /\ tasks[t].pc = "done"
        /\ tasks[t].result = Ok_NoResponse
        /\ \E i \in RowsOf(store, tasks[t].ev.message.id),
              j \in RowsOf(store, tasks[t].arg) :
                i # j /\ SameItem(store[i], store[j]) /\ ~store[j].bought

(***************************************************************************)
(* C5.  A bought click sets the row's flag and re-renders the message as   *)
(* "(BOUGHT) ~~d~~", a remove click sets the flag and re-renders it as     *)
(* "(REMOVED) d", d being the description of the clicked message; the      *)
(* re-rendered message has the one button readd, enabled.  The Active      *)
(* rendering has bought and remove enabled and readd disabled.             *)
(***************************************************************************)
ClickedDescription(t) == Unwrap(tasks[t].ev.message.embeds[1].description)

ClosedBy(t, description) ==
    LET m == tasks[t].ev.message.id IN
    /\ Len(messages'[m].embeds) = 1
    /\ messages'[m].embeds[1].description = Some(description)
    /\ { messages'[m].components[i].custom_id : i \in DOMAIN messages'[m].components }
         = {"readd"}
    /\ EnabledButtons(messages'[m]) = {"readd"}
    /\ \A i \in RowsOf(store', m) : store'[i].bought

\* C5: each close step sets the flag and renders the tagged description with
\* readd alone enabled; the Active rendering enables bought and remove only
C5_CloseRendering ==
    [][\A t \in Tasks :
         /\ tasks[t].pc \in {"bought_set", "remove_set"} /\ Steps(t)
            /\ OpsOf(tasks'[t], "set_bought") # {}
            => /\ \A i \in RowsOf(store', tasks[t].ev.message.id) : store'[i].bought
               /\ \A i \in DOMAIN store :
                    store[i].message_id # tasks[t].ev.message.id => store'[i] = store[i]
               /\ Len(store') = Len(store)
         /\ tasks[t].pc = "bought_edit" /\ Steps(t) /\ tasks'[t].pc # "done"
            => ClosedBy(t, <<"(", "B", "O", "U", "G", "H", "T", ")", " ", "~", "~">>
                           \o ClickedDescription(t) \o <<"~", "~">>)
         /\ tasks[t].pc = "remove_edit" /\ Steps(t) /\ tasks'[t].pc # "done"
            => ClosedBy(t, <<"(", "R", "E", "M", "O", "V", "E", "D", ")", " ">>
                           \o ClickedDescription(t))
         /\ tasks[t].pc \in {"new_followup", "readd_followup"} /\ Steps(t)
            /\ tasks'[t].pc # "done"
            => LET msg == messages'[tasks'[t].arg] IN
               /\ EnabledButtons(msg) = {"bought", "remove"}
               /\ \E i \in DOMAIN msg.components :
                    msg.components[i] = Button("readd", TRUE)]_vars

\* a bought click and a remove click on an Active item have both completed
C5_Witness ==
    \E t, u \in Tasks :
        /\ IsClick(t, "bought") /\ IsClick(u, "remove")
        /\ tasks[t].pc = "done" /\ tasks[t].result = Ok_NoResponse
        /\ tasks[u].pc = "done" /\ tasks[u].result = Ok_NoResponse
        /\ EnabledButtons(tasks[t].ev.message) = {"bought", "remove"}
        /\ EnabledButtons(tasks[u].ev.message) = {"bought", "remove"}

(***************************************************************************)
(* C6.  In the bought and remove arms the message is edited only after     *)
(* set_bought has returned Ok; when set_bought fails the handling ends     *)
(* with an error and the message is left as it was.                        *)
(***************************************************************************)
C6_EditAfterSetBought ==
    [][\A t \in Tasks :
         /\ tasks[t].pc \in {"bought_set", "remove_set"} /\ Steps(t)
            /\ OpsOf(tasks'[t], "set_bought") = {}
            => /\ messages' = messages
               /\ tasks'[t].pc = "done"
               /\ tasks'[t].result[1] = "Err"
         /\ (IsClick(t, "bought") \/ IsClick(t, "remove")) /\ Steps(t)
            /\ messages' # messages
            => OpsOf(tasks[t], "set_bought") # {}]_vars

\* set_bought failed, and the clicked message is as the click saw it
C6_Witness ==
    \E t \in Tasks :
        /\ IsClick(t, "bought") \/ IsClick(t, "remove")
        /\ \E i \in DOMAIN tasks[t].ops :
             tasks[t].ops[i].op = "set_bought" /\ ~tasks[t].ops[i].ok
        /\ tasks[t].pc = "done"
        /\ messages[tasks[t].ev.message.id].embeds = tasks[t].ev.message.embeds
        /\ EnabledButtons(messages[tasks[t].ev.message.id]) = {"bought", "remove"}

(***************************************************************************)
(* C7.  The handling of every event begins with the acknowledgement: the   *)
(* handler reads or writes no row and edits no message before a            *)
(* create_response of that event has succeeded.  (The lookup of            *)
(* Shop::answerable, made before the handler runs, is left out.)           *)
(***************************************************************************)
HandlerOps(t) ==
    { i \in DOMAIN tasks[t].ops :
        /\ tasks[t].ops[i].op \in {"get", "set_bought", "insert", "edit"}
        /\ ~(tasks[t].ev.kind = "Click" /\ i = 1) }

\* C7: every store call and edit of a handler follows an acknowledgement
C7_AcknowledgementFirst ==
    \A t \in Tasks :
        \A i \in HandlerOps(t) :
            \E j \in OpsOf(tasks[t], "create_response") : j < i

UnknownClick(t) ==
    /\ tasks[t].ev.kind = "Click"
    /\ tasks[t].ev.custom_id \notin {"bought", "remove", "readd"}

\* C10: an unknown custom_id changes no row and no message and ends in error
C10_UnknownAction ==
    [][\A t \in Tasks :
         UnknownClick(t) /\ Steps(t) =>
            /\ store' = store
            /\ messages' = messages
            /\ tasks'[t].pc \in {"invalid", "done"}
            /\ tasks'[t].pc = "done" => tasks'[t].result[1] = "Err"
            /\ tasks[t].pc = "invalid" =>
                 tasks'[t].result = InternalFailure("Invalid interaction")]_vars

\* an unknown click on a Closed item has been refused; its row is as it was
C10_Witness ==
    \E t \in Tasks :
        /\ UnknownClick(t)
        /\ tasks[t].pc = "done"
        /\ tasks[t].result = InternalFailure("Invalid interaction")
        /\ EnabledButtons(tasks[t].ev.message) = {"readd"}
        /\ \E i \in RowsOf(store, tasks[t].ev.message.id) : store[i].bought

(***************************************************************************)
(* C11.  Two concurrent bought clicks on the same Active item: however     *)
(* their steps interleave, once both have ended the row is bought, the     *)
(* message carries at most one "(BOUGHT)" tag, and neither handling has    *)
(* ended in a panic, also when a render or a response call failed.         *)
(***************************************************************************)
Occurrences(s, pat) ==
    Cardinality({ i \in 1..(Len(s) - Len(pat) + 1) :
                    SubSeq(s, i, i + Len(pat) - 1) = pat })

BoughtTag == <<"(", "B", "O", "U", "G", "H", "T", ")">>

TagsOf(msg) ==
    IF msg.embeds = <<>> \/ msg.embeds[1].description = None THEN 0
    ELSE Occurrences(Unwrap(msg.embeds[1].description), BoughtTag)

\* t and u handle bought clicks made on the same message while it was Active
ConcurrentBought(t, u) ==
    /\ t # u
    /\ IsClick(t, "bought") /\ IsClick(u, "bought")
    /\ tasks[t].ev.message.id = tasks[u].ev.message.id
    /\ tasks[t].pc # "idle" /\ tasks[u].pc # "idle"

Crashed(task) == task.pc = "done" /\ task.result[1] = "Panic"

\* C11: the row ends bought, one tag at most, and no handler panics
C11_ConcurrentBought ==
    \A t, u \in Tasks :
        ConcurrentBought(t, u) =>
            LET m == tasks[t].ev.message.id IN
            /\ TagsOf(messages[m]) <= 1
            /\ ~Crashed(tasks[t])
            /\ tasks[t].pc = "done" /\ tasks[u].pc = "done"
               => \A i \in RowsOf(store, m) : store[i].bought

\* the same, without the claim that no handler panics
C11_RowAndTag ==
    \A t, u \in Tasks :
        ConcurrentBought(t, u) =>
            LET m == tasks[t].ev.message.id IN
            /\ TagsOf(messages[m]) <= 1
            /\ tasks[t].pc = "done" /\ tasks[u].pc = "done"
               /\ (OpsOf(tasks[t], "set_bought") # {}
                   \/ OpsOf(tasks[u], "set_bought") # {})
               => \A i \in RowsOf(store, m) : store[i].bought

(***************************************************************************)
(* C12.  readd is not idempotent: every readd click that succeeds adds one *)
(* more row, Active, copying the row of the clicked message, under a       *)
(* message id no row had before, also when the table already holds such a  *)
(* copy; the rows that were there stay.  So n clicks leave n copies.       *)
(***************************************************************************)
C12_ReaddNotIdempotent ==
    [][\A t \in Tasks :
         IsClick(t, "readd") /\ Ends(t, Ok_NoResponse) =>
           /\ Len(store') = Len(store) + 1
           /\ \A i \in DOMAIN store :
                /\ store'[i] = store[i]
                /\ store[i].message_id # LastRow(store').message_id
           /\ ~LastRow(store').bought
           /\ \A i \in RowsOf(store, tasks[t].ev.message.id) :
                SameItem(LastRow(store'), store[i])]_vars

\* two readd clicks on the same closed message, handled concurrently, have
\* both succeeded: the table holds two Active copies beside the closed row
C12_Witness ==
    \E t, u \in Tasks :
        /\ t # u
        /\ IsClick(t, "readd") /\ IsClick(u, "readd")
        /\ tasks[t].ev.message.id = tasks[u].ev.message.id
        /\ tasks[t].pc = "done" /\ tasks[t].result = Ok_NoResponse
        /\ tasks[u].pc = "done" /\ tasks[u].result = Ok_NoResponse
        /\ \E i \in RowsOf(store, tasks[t].ev.message.id),
              j \in RowsOf(store, tasks[t].arg),
              k \in RowsOf(store, tasks[u].arg) :
                /\ j # k /\ i # j /\ i # k
                /\ store[i].bought /\ ~store[j].bought /\ ~store[k].bought
                /\ SameItem(store[j], store[i]) /\ SameItem(store[k], store[i])
        /\ Len(store) = 3

(***************************************************************************)
(* C13.  What the user is shown for an internal failure does not depend on *)
(* the underlying error: the response generated for the outcome is the     *)
(* fixed generic text, the same as for the outcome with any other error    *)
(* text in its place, and no message in the channel carries an error text. *)
(***************************************************************************)
IsInternalFailure(task) ==
    task.pc = "done" /\ Len(task.result) >= 2 /\ task.result[2] = "InternalFailure"

\* the same outcome, had the underlying error been e
WithCause(result, e) ==
    IF Len(result) = 4 THEN [result EXCEPT ![4] = e] ELSE result

FixedContents == {"", "loading", "error communicating with database"}

C13_GenericUserText ==
    /\ \A t \in Tasks :
         IsInternalFailure(tasks[t]) =>
            /\ generate_response(ResponseOf(tasks[t].result)) = GenericText
            /\ \A e \in ErrTexts :
                 generate_response(ResponseOf(WithCause(tasks[t].result, e)))
                   = generate_response(ResponseOf(tasks[t].result))
    /\ \A m \in DOMAIN messages : messages[m].content \in FixedContents

\* a store call of a transition failed with the second of the error texts
C13_Witness ==
    \E t \in Tasks :
        /\ IsInternalFailure(tasks[t])
        /\ tasks[t].ev.kind = "Click"
        /\ Len(tasks[t].result) = 4
        /\ tasks[t].result[4] = "refused"
        /\ \E i \in DOMAIN tasks[t].ops :
             tasks[t].ops[i].op = "set_bought" /\ ~tasks[t].ops[i].ok

(***************************************************************************)
(* C14.  Every internal failure outcome is written to the log exactly      *)
(* once, at error severity, with its cause as the text: the handler has    *)
(* not logged it itself and write_to_log writes the one entry.             *)
(***************************************************************************)
C14_LoggedOnceAtError ==
    \A t \in Tasks :
        IsInternalFailure(tasks[t]) =>
            /\ \A i \in DOMAIN tasks[t].ops : tasks[t].ops[i].op # "log"
            /\ write_to_log(ResponseOf(tasks[t].result))
                 = << [level |-> "Error",
                       text |-> Message(ResponseOf(tasks[t].result))] >>

\* the same, at the severity the entry is written with
C14_LoggedOnceAtInfo ==
    \A t \in Tasks :
        IsInternalFailure(tasks[t]) =>
            /\ \A i \in DOMAIN tasks[t].ops : tasks[t].ops[i].op # "log"
            /\ write_to_log(ResponseOf(tasks[t].result))
                 = << [level |-> "Info",
                       text |-> Message(ResponseOf(tasks[t].result))] >>

(***************************************************************************)
(* Vocabulary of the suggestion properties.                                *)
(***************************************************************************)
IsChoices(task) ==
    task.pc = "done" /\ Len(task.result) = 3 /\ task.result[2] = "Choices"

\* the suggestion list task t returned
Ranked(t) == tasks[t].result[3]

\* the names that were ranked for task t, in the order they were collected
Candidates(t) == CandidatesOf(tasks[t].items, tasks[t].ev.name)

(***************************************************************************)
(* C15.  The suggestion list returned for an autocomplete request never    *)
(* has more than 25 entries, for the item field and for the store field,   *)
(* however many names the rows and the fixed list give.                    *)
(***************************************************************************)
C15_AtMost25 ==
    \A t \in Tasks : IsChoices(tasks[t]) => Len(Ranked(t)) <= 25

\* more than 25 store names were candidates, and 25 were returned
C15_Witness ==
    \E t \in Tasks :
        /\ IsChoices(tasks[t])
        /\ tasks[t].ev.name = "store"
        /\ Len(Candidates(t)) > 25
        /\ Len(Ranked(t)) = 25

(***************************************************************************)
(* C16.  In the suggestion list for prefix p every name that starts with p *)
(* comes before every name that does not, and when a candidate that starts *)
(* with p was cut off by the truncation, every name kept starts with p.    *)
(***************************************************************************)
C16_StartsFirst ==
    \A t \in Tasks :
        IsChoices(tasks[t]) =>
            LET r == Ranked(t)
                p == tasks[t].ev.value
                dropped == Range(Candidates(t)) \ Range(r)
            IN /\ \A i, j \in DOMAIN r :
                    starts_with(r[i], p) /\ ~starts_with(r[j], p) => i < j
               /\ (\E x \in dropped : starts_with(x, p))
                    => \A i \in DOMAIN r : starts_with(r[i], p)

\* a list for "ch" that holds names that start with it and names that do
\* not, and from which candidates were cut off
C16_Witness ==
    \E t \in Tasks :
        /\ IsChoices(tasks[t])
        /\ tasks[t].ev.value = <<"c", "h">>
        /\ \E i, j \in DOMAIN Ranked(t) :
             /\ starts_with(Ranked(t)[i], <<"c", "h">>)
             /\ ~starts_with(Ranked(t)[j], <<"c", "h">>)
        /\ Range(Candidates(t)) \ Range(Ranked(t)) # {}

(***************************************************************************)
(* C17.  For a fixed prefix the comparator is a total order on the         *)
(* candidate names: two distinct names never compare Equal, a is Less than *)
(* b exactly when b is Greater than a, and the names can be arranged so    *)
(* that every name is Less than all that follow it.  The list returned is  *)
(* the first 25 of that arrangement, in whatever order the names were      *)
(* handed to the sort.                                                     *)
(***************************************************************************)
C17_TotalOrder ==
    \A t \in Tasks :
        IsChoices(tasks[t]) =>
            LET c == Candidates(t)
                p == tasks[t].ev.value
                n == Len(c)
                s == SubSeq(sort_by(c, p), 1, n)
            IN /\ \A i, j \in 1..n :
                    i < j => \/ /\ compare(c[i], c[j], p) = "Less"
                                /\ compare(c[j], c[i], p) = "Greater"
                             \/ /\ compare(c[i], c[j], p) = "Greater"
                                /\ compare(c[j], c[i], p) = "Less"
               /\ Range(s) = Range(c)
               /\ \A i, j \in 1..n : i < j => compare(s[i], s[j], p) = "Less"
               /\ Ranked(t) = SubSeq(s, 1, IF n < 25 THEN n ELSE 25)

\* the names were handed to the sort in the reverse order
C17_Witness ==
    \E t \in Tasks :
        /\ IsChoices(tasks[t])
        /\ tasks[t].hasher = "reverse"
        /\ tasks[t].ev.name = "item"
        /\ tasks[t].ev.value = <<"s", "h">>
        /\ Len(Candidates(t)) > 25
        /\ Range(ItemsOf(tasks[t].items)) \ Range(EXTRA_ITEMS) # {}

(***************************************************************************)
(* C18.  An autocomplete request on field item with prefix "ch", the rows  *)
(* holding the items "cheese 1kg", "chocolate" and "milk 2L".              *)
(***************************************************************************)
ChScenario(t) ==
    /\ IsChoices(tasks[t])
    /\ tasks[t].ev.name = "item"
    /\ tasks[t].ev.value = <<"c", "h">>
    /\ Range(ItemsOf(tasks[t].items)) = {Cheese1kg, Chocolate, Milk2L}

\* C18 as stated: the list begins with "cheese 1kg", "chocolate", and
\* "milk 2L" comes after both
C18_BeginsCheeseChocolate ==
    \A t \in Tasks :
        ChScenario(t) =>
            /\ Ranked(t)[1] = Cheese1kg
            /\ Ranked(t)[2] = Chocolate
            /\ \A k \in DOMAIN Ranked(t) : Ranked(t)[k] = Milk2L => k > 2

CherryTomatoes ==
    <<"c", "h", "e", "r", "r", "y", " ", "t", "o", "m", "a", "t", "o", "e", "s">>

ChickenBreast500g ==
    <<"c", "h", "i", "c", "k", "e", "n", " ", "b", "r", "e", "a", "s", "t", " ",
      "5", "0", "0", "g">>

\* C18, with the names of the fixed list ranked among those of the rows: the
\* list begins with "cheese 1kg", "chocolate" is fourth, after "cherry
\* tomatoes" and "chicken breast 500g" of the fixed list, and "milk 2L",
\* which ranks after both, is not among the 25 names returned
C18_BeginsWithFixedNames ==
    \A t \in Tasks :
        ChScenario(t) =>
            /\ SubSeq(Ranked(t), 1, 4)
                 = <<Cheese1kg, CherryTomatoes, ChickenBreast500g, Chocolate>>
            /\ compare(Cheese1kg, Milk2L, <<"c", "h">>) = "Less"
            /\ compare(Chocolate, Milk2L, <<"c", "h">>) = "Less"
            /\ Milk2L \notin Range(Ranked(t))
            /\ Len(Ranked(t)) = 25

C18_Witness ==
    \E t \in Tasks :
        /\ ChScenario(t)
        /\ Ranked(t)[1] = Cheese1kg
        /\ Ranked(t)[4] = Chocolate
        /\ {CherryTomatoes, ChickenBreast500g} \subseteq Range(EXTRA_ITEMS)

(***************************************************************************)
(* C19.  A /shop command with item "milk 2L", personal true, quantity 3    *)
(* and no store, at the step that ends its handling with success.          *)
(***************************************************************************)
MilkRequest ==
    [item |-> Some(Milk2L), personal |-> Some(TRUE), quantity |-> Some(3),
     store |-> None, notes |-> None]

MilkAdded(t) ==
    /\ tasks[t].ev.kind = "NewItem"
    /\ tasks[t].ev.options = MilkRequest
    /\ Ends(t, Ok_NoResponse)

MilkRow(row) ==
    /\ row.item = Milk2L
    /\ row.personal = TRUE
    /\ row.quantity = 3
    /\ row.store = None
    /\ row.bought = FALSE

\* the description of the message the new row is keyed by
AddedDescription(t) == Unwrap(messages'[tasks'[t].arg].embeds[1].description)

AddedX3Milk2L ==
    <<"A", "d", "d", "e", "d", " ", "x", "3", " ", "m", "i", "l", "k", " ", "2", "L">>

ToTheShoppingList ==
    <<" ", "t", "o", " ", "t", "h", "e", " ", "s", "h", "o", "p", "p", "i", "n", "g",
      " ", "l", "i", "s", "t">>

\* C19 as stated: the row has the fields of the request and the description
\* contains "Added x3 milk 2L to the shopping list"
C19_DescriptionContains ==
    [][\A t \in Tasks :
         MilkAdded(t) =>
            /\ MilkRow(LastRow(store'))
            /\ contains(AddedDescription(t), AddedX3Milk2L \o ToTheShoppingList)]_vars

\* C19, with the description as it is rendered for a personal item: the row
\* has the fields of the request and the description is "Added x3 milk 2L
\* (personal) to the shopping list"
C19_DescriptionPersonal ==
    [][\A t \in Tasks :
         MilkAdded(t) =>
            /\ MilkRow(LastRow(store'))
            /\ LastRow(store').message_id = tasks'[t].arg
            /\ AddedDescription(t)
                 = AddedX3Milk2L
                   \o <<" ", "(", "p", "e", "r", "s", "o", "n", "a", "l", ")">>
                   \o ToTheShoppingList]_vars

C19_Witness ==
    \E t \in Tasks :
        /\ tasks[t].ev.kind = "NewItem"
        /\ tasks[t].ev.options = MilkRequest
        /\ tasks[t].pc = "done" /\ tasks[t].result = Ok_NoResponse
        /\ \E i \in RowsOf(store, tasks[t].arg) : MilkRow(store[i])
        /\ starts_with(Unwrap(messages[tasks[t].arg].embeds[1].description),
                       AddedX3Milk2L)

(***************************************************************************)
(* C20.  A bought or a remove click closes the item whoever clicks: when   *)
(* its set_bought succeeds the row of the clicked message has bought =     *)
(* true and is otherwise as it was, and the handling goes on to the edit,  *)
(* whether or not the acting user is the user of the row.                  *)
(***************************************************************************)
C20_AnyUserCloses ==
    [][\A t \in Tasks :
         /\ tasks[t].pc \in {"bought_set", "remove_set"}
         /\ Steps(t)
         /\ OpsOf(tasks'[t], "set_bought") # {}
         => /\ \A i \in RowsOf(store, tasks[t].ev.message.id) :
                 store'[i] = [store[i] EXCEPT !.bought = TRUE]
            /\ tasks'[t].pc \in {"bought_edit", "remove_edit"}]_vars

\* a user has closed, by bought or by remove, an item of another user
C20_Witness ==
    \E t \in Tasks :
        /\ IsClick(t, "bought") \/ IsClick(t, "remove")
        /\ tasks[t].pc = "done" /\ tasks[t].result = Ok_NoResponse
        /\ \E i \in RowsOf(store, tasks[t].ev.message.id) :
             store[i].user_id # tasks[t].ev.user /\ store[i].bought
        /\ EnabledButtons(messages[tasks[t].ev.message.id]) = {"readd"}

(***************************************************************************)
(* C21.  No two rows of the table share a message_id, in every reachable   *)
(* state.  An insert under a message_id the table already holds fails with *)
(* Conflict and returns no table, so the row of that id stays as it is; an *)
(* insert under any other id adds one row after the others and keeps the   *)
(* ids distinct.                                                           *)
(***************************************************************************)
UniqueIds(s) ==
    \A i, j \in DOMAIN s : s[i].message_id = s[j].message_id => i = j

\* rows a handler can ask the store to insert: an item under the id of any
\* message or of the next one
InsertableRows ==
    { Row(FirstUser, m, TheChannel, TheGuild, SeedShop) :
        m \in 1..(Len(messages) + 1) }

C21_UniqueMessageId ==
    /\ UniqueIds(store)
    /\ \A row \in InsertableRows :
         LET r == AddShoppingListItem(store, row) IN
         IF RowsOf(store, row.message_id) # {}
         THEN r = <<"Err", "Conflict">>
         ELSE /\ r[1] = "Ok"
              /\ UniqueIds(r[2])
              /\ Len(r[2]) = Len(store) + 1
              /\ SubSeq(r[2], 1, Len(store)) = store

\* a /shop command and a readd click have both added their row, and the
\* table holds three rows under three ids
C21_Witness ==
    /\ \E t, u \in Tasks :
         /\ tasks[t].ev.kind = "NewItem" /\ IsClick(u, "readd")
         /\ tasks[t].pc = "done" /\ tasks[u].pc = "done"
         /\ OpsOf(tasks[t], "insert") # {} /\ OpsOf(tasks[u], "insert") # {}
    /\ Len(store) = 3
    /\ Cardinality({ store[i].message_id : i \in DOMAIN store }) = 3

(***************************************************************************)
(* C22.  Every row of the table has quantity at least 1, in the first      *)
(* state and after every step: a /shop command that carries no quantity    *)
(* and whose insert succeeds adds a row of quantity 1, and a row added by a *)
(* command or by a readd click has a quantity of at least 1.               *)
(***************************************************************************)
Inserts(t) ==
    /\ tasks[t].pc \in {"new_insert", "readd_insert"}
    /\ Steps(t)
    /\ OpsOf(tasks'[t], "insert") # {}

C22_QuantityAtLeastOne ==
    /\ \A i \in DOMAIN store : store[i].quantity >= 1
    /\ [][/\ \A i \in DOMAIN store' : store'[i].quantity >= 1
          /\ \A t \in Tasks :
               Inserts(t) =>
                 /\ Len(store') = Len(store) + 1
                 /\ LastRow(store').quantity >= 1
                 /\ tasks[t].ev.kind = "NewItem" /\ tasks[t].ev.options.quantity = None
                    => LastRow(store').quantity = 1]_vars

\* a command without a quantity has added its row, of quantity 1, to a table
\* that holds the copy a readd click made of the first item
C22_Witness ==
    /\ \E t \in Tasks :
         /\ tasks[t].ev.kind = "NewItem"
         /\ tasks[t].ev.options.quantity = None
         /\ tasks[t].pc = "done" /\ OpsOf(tasks[t], "insert") # {}
         /\ \E i \in RowsOf(store, tasks[t].arg) : store[i].quantity = 1
    /\ \E i, j \in DOMAIN store :
         /\ store[i].bought /\ ~store[j].bought
         /\ store[i].message_id # store[j].message_id
         /\ SameItem(store[i], store[j])

(***************************************************************************)
(* C23.  While an event is handled and when its handling has ended, the    *)
(* handler has called create_response at most once for it, counting the    *)
(* calls that failed; this holds on the paths that end in a failure too.   *)
(***************************************************************************)
Issued(task, op) == { i \in DOMAIN task.ops : task.ops[i].op = op }

InsertFailed(task) ==
    \E i \in Issued(task, "insert") : ~task.ops[i].ok

Logged(task, id) ==
    \E i \in Issued(task, "log") : task.ops[i].id = id

C24_InsertFailureDegrades ==
    \A t \in Tasks :
        InsertFailed(tasks[t]) =>
            /\ Logged(tasks[t], 283)
            /\ Cardinality(Issued(tasks[t], "insert")) = 1
            /\ messages[tasks[t].arg] = create_new_shopping(Unwrap(tasks[t].shop))
            /\ RowsOf(store, tasks[t].arg) = {}
            /\ tasks[t].pc \in {"new_errfollowup", "readd_errfollowup", "done"}
            /\ tasks[t].pc = "done" => tasks[t].result = Err_NoResponse

\* the insert of a /shop command has failed and its handling has ended, the
\* failure having been reported in a message of its own
C24_Witness ==
    \E t \in Tasks :
        /\ tasks[t].ev.kind = "NewItem"
        /\ InsertFailed(tasks[t])
        /\ tasks[t].pc = "done"
        /\ IsItemMessage(messages[tasks[t].arg])
        /\ \E m \in DOMAIN messages : m # tasks[t].arg /\ messages[m] = ErrorFollowup

(***************************************************************************)
(* C25.  In a bought or a remove transition whose set_bought has           *)
(* succeeded, when the clicked message carries no embed or the edit of the *)
(* message fails: the table is left as set_bought made it, every row of    *)
(* the clicked message having bought = true, the channel is left as it     *)
(* was, the message still showing its enabled bought and remove buttons    *)
(* unless another handling has edited it since the click, and the handling *)
(* ends with an internal failure.                                          *)
(***************************************************************************)
EditFails(t) ==
    /\ tasks[t].pc \in {"bought_edit", "remove_edit"}
    /\ Steps(t)
    /\ OpsOf(tasks'[t], "edit") = {}

C25_NoRollback ==
    [][\A t \in Tasks :
         EditFails(t) =>
           LET m == tasks[t].ev.message.id IN
           /\ OpsOf(tasks[t], "set_bought") # {}
           /\ store' = store
           /\ \A i \in RowsOf(store', m) : store'[i].bought
           /\ messages' = messages
           /\ messages[m].components = tasks[t].ev.message.components
              => EnabledButtons(messages'[m]) = {"bought", "remove"}
           /\ IsInternalFailure(tasks'[t])]_vars

\* a bought click on a message without embed has ended in an internal
\* failure, its row closed and its buttons as they were
C25_Witness ==
    \E t \in Tasks :
        /\ IsClick(t, "bought")
        /\ tasks[t].ev.message.embeds = <<>>
        /\ IsInternalFailure(tasks[t])
        /\ OpsOf(tasks[t], "set_bought") # {}
        /\ \E i \in RowsOf(store, tasks[t].ev.message.id) : store[i].bought
        /\ EnabledButtons(messages[tasks[t].ev.message.id]) = {"bought", "remove"}

(***************************************************************************)
(* C26.  The suggestion list returned for the item or the store field is   *)
(* the first 25 of the candidates in the three-tier order: its entries are *)
(* distinct names of the recent rows of the user, of the recent rows of    *)
(* all users or of the fixed list of the field; each entry is followed by  *)
(* an entry of the same tier that is greater in byte order or by an entry  *)
(* of a later tier, the tiers being the names that start with the phrase,  *)
(* the other names that contain it, and the rest; and every candidate left *)
(* out comes after the last entry in that order, none being left out when  *)
(* the list has fewer than 25 entries.                                     *)
(***************************************************************************)
Tier(a, p) == IF starts_with(a, p) THEN 1 ELSE IF contains(a, p) THEN 2 ELSE 3

Precedes(a, b, p) ==
    \/ Tier(a, p) < Tier(b, p)
    \/ Tier(a, p) = Tier(b, p) /\ cmp(a, b) = "Less"

NamesIn(rows, name) ==
    IF name = "item" THEN { rows[i].item : i \in DOMAIN rows }
    ELSE { Unwrap(rows[i].store) : i \in { j \in DOMAIN rows : IsSome(rows[j].store) } }

CandidateSet(s, user_id, name) ==
    NamesIn(RecentItemsByUser(s, user_id, RecentLimit), name)
      \cup NamesIn(RecentItems(s, RecentLimit), name)
      \cup Range(IF name = "item" THEN EXTRA_ITEMS ELSE EXTRA_STORE_NAMES)

C26_FirstOfThreeTierOrder ==
    \A t \in Tasks :
        IsChoices(tasks[t]) =>
          LET r == Ranked(t)
              p == tasks[t].ev.value
              c == CandidateSet(store, tasks[t].ev.user, tasks[t].ev.name)
          IN /\ Range(r) \subseteq c
             /\ Len(r) = IF Cardinality(c) < MaxChoices THEN Cardinality(c)
                         ELSE MaxChoices
             /\ \A i \in 1..(Len(r) - 1) : Precedes(r[i], r[i + 1], p)
             /\ \A a \in c \ Range(r) : Precedes(r[Len(r)], a, p)

\* a list of 25 for the phrase "ch" that has entries of all three tiers and
\* leaves candidates out
C26_Witness ==
    \E t \in Tasks :
        /\ IsChoices(tasks[t])
        /\ tasks[t].ev.value = <<"c", "h">>
        /\ Len(Ranked(t)) = MaxChoices
        /\ { Tier(Ranked(t)[i], tasks[t].ev.value) : i \in DOMAIN Ranked(t) } = {1, 2, 3}
        /\ Cardinality(Range(Candidates(t))) > MaxChoices
        /\ \E i \in DOMAIN store : store[i].item \in Range(Ranked(t)) \ Range(EXTRA_ITEMS)

(***************************************************************************)
(* C27.  An autocomplete request for the item or the store field whose two *)
(* queries succeed is answered with a list that is not empty; over an      *)
(* empty table the list is made of names of the fixed list of the field,   *)
(* 25 of them or all when the fixed list has fewer.                        *)
(***************************************************************************)
Min(a, b) == IF a < b THEN a ELSE b

C27_NeverEmpty ==
    \A t \in Tasks :
        /\ tasks[t].pc = "done"
        /\ tasks[t].ev.kind = "Autocomplete"
        /\ tasks[t].ev.name \in {"item", "store"}
        /\ Cardinality(OpsOf(tasks[t], "recent_by_user")) = 1
        /\ Cardinality(OpsOf(tasks[t], "recent")) = 1
        => /\ IsChoices(tasks[t])
           /\ Len(Ranked(t)) >= 1
           /\ store = <<>> =>
                LET extra == IF tasks[t].ev.name = "item" THEN EXTRA_ITEMS
                             ELSE EXTRA_STORE_NAMES
                IN /\ Range(Ranked(t)) \subseteq Range(extra)
                   /\ Len(Ranked(t)) = Min(Len(extra), MaxChoices)

\* a request for the store field over an empty table has been answered
C27_Witness ==
    \E t \in Tasks :
        /\ store = <<>>
        /\ IsChoices(tasks[t])
        /\ tasks[t].ev.name = "store"
        /\ tasks[t].items = <<>>
        /\ Len(Ranked(t)) = Len(EXTRA_STORE_NAMES)

(***************************************************************************)
(* C28.  A /shop command that carries no item or no personal option is     *)
(* rejected by Shop::try_from: its handling makes no call on the platform  *)
(* nor on the store, changes neither the table nor the channel, and ends   *)
(* with the error text "item and personal are required".                   *)
(***************************************************************************)
LacksRequired(task) ==
    /\ task.ev.kind = "NewItem"
    /\ task.ev.options.item = None \/ task.ev.options.personal = None

C28_RejectedBeforeAnyCall ==
    /\ \A t \in Tasks : ~LacksRequired(tasks[t])
    /\ [][\A t \in Tasks :
            LacksRequired(tasks'[t]) =>
              /\ tasks'[t].ops = <<>>
              /\ tasks'[t].pc \in {"try_from", "done"}
              /\ tasks'[t].pc = "done" =>
                   tasks'[t].result = <<"Err", "String", "item and personal are required">>
              /\ Steps(t) => store' = store /\ messages' = messages]_vars

\* a command with personal but without item has been rejected, over a table
\* and a channel that hold an item
C28_Witness ==
    \E t \in Tasks :
        /\ LacksRequired(tasks[t])
        /\ tasks[t].ev.options.item = None /\ IsSome(tasks[t].ev.options.personal)
        /\ tasks[t].pc = "done" /\ tasks[t].result[1] = "Err"
        /\ Len(store) = 1 /\ Len(messages) = 1

(***************************************************************************)
(* C29.  The handling of an autocomplete request never writes: the step    *)
(* that takes the request and every step of its handling, whichever field  *)
(* and phrase it carries and whether the step succeeds or fails, leave the *)
(* table and the channel as they were.  A step of a command or of a click  *)
(* taken while an autocomplete request is being handled does to the table  *)
(* what it does alone: set_bought sets the flag of the rows of the clicked *)
(* message, an insert appends its one row, any other step changes nothing. *)
(***************************************************************************)
Handling(task, kind) == task.ev.kind = kind /\ task.pc \notin {"idle", "done"}

C29_AutocompleteOnlyReads ==
    [][/\ \A t \in Tasks :
            tasks'[t].ev.kind = "Autocomplete" /\ tasks'[t] # tasks[t]
              => store' = store /\ messages' = messages
       /\ \A t, u \in Tasks :
            /\ Handling(tasks[u], "Autocomplete")
            /\ tasks[t].ev.kind \in {"NewItem", "Click"}
            /\ Steps(t)
            => LET m == tasks[t].ev.message.id
                   ev == tasks[t].ev
               IN store' =
                    IF tasks[t].pc \in {"bought_set", "remove_set"}
                       /\ OpsOf(tasks'[t], "set_bought") # {}
                    THEN [i \in DOMAIN store |->
                            IF store[i].message_id = m
                            THEN [store[i] EXCEPT !.bought = TRUE] ELSE store[i]]
                    ELSE IF tasks[t].pc \in {"new_insert", "readd_insert"}
                            /\ OpsOf(tasks'[t], "insert") # {}
                    THEN Append(store, Row(ev.user, tasks[t].arg, ev.channel_id,
                                           ev.guild_id, Unwrap(tasks[t].shop)))
                    ELSE store]_vars

\* a click has closed an item that a query of an autocomplete request had
\* read as open, and the request has returned its suggestions
C29_Witness ==
    \E t, u \in Tasks :
        /\ IsChoices(tasks[u])
        /\ tasks[u].ev.kind = "Autocomplete"
        /\ \E i \in DOMAIN tasks[u].items : ~tasks[u].items[i].bought
        /\ IsClick(t, "bought")
        /\ tasks[t].pc = "done" /\ tasks[t].result = Ok_NoResponse
        /\ \A i \in DOMAIN store : store[i].bought
        /\ store # <<>>

(***************************************************************************)
(* C30.  A readd click adds a row only from the Closed state: whenever the *)
(* insert of a readd click succeeds, the row of the clicked message has    *)
(* bought = true; a readd click on a message whose row has bought = false  *)
(* adds no row.                                                            *)
(***************************************************************************)
C30_ReaddOnlyFromClosed ==
    [][\A t \in Tasks :
         IsClick(t, "readd") /\ Inserts(t) =>
           \A i \in RowsOf(store, tasks[t].ev.message.id) : store[i].bought]_vars

\* what the readd arm does: it adds a copy of the row it looked up, whatever
\* the bought flag of that row
C30_ReaddCopiesAnyRow ==
    [][\A t \in Tasks :
         IsClick(t, "readd") /\ Inserts(t) =>
           /\ Len(store') = Len(store) + 1
           /\ ~LastRow(store').bought
           /\ \A i \in RowsOf(store, tasks[t].ev.message.id) :
                SameItem(LastRow(store'), store[i]) /\ store'[i] = store[i]]_vars

(***************************************************************************)
(* C31.  Under fair scheduling the handling of a bought or a remove click  *)
(* on an item of the table always ends: a click that has been received     *)
(* leads to a state where its handling is done, having called set_bought,  *)
(* the edit and create_response at most once each.  When none of its calls *)
(* failed it has ended with Ok, the row of the clicked message has         *)
(* bought = true, the message shows a tagged description with readd alone  *)
(* enabled, and the one create_response was called after the edit had      *)
(* succeeded, itself after set_bought.                                     *)
(***************************************************************************)
Clicked(t, user, custom_id) ==
    /\ IsClick(t, custom_id)
    /\ tasks[t].ev.user = user

AllOk(task) == \A i \in DOMAIN task.ops : task.ops[i].ok

ClosedRendering(t) ==
    LET msg == messages[tasks[t].ev.message.id]
        d == ClickedDescription(t)
    IN /\ Len(msg.embeds) = 1
       /\ msg.embeds[1].description \in
            {Some(BoughtDescription(d)), Some(RemovedDescription(d))}
       /\ EnabledButtons(msg) = {"readd"}

Completed(t) ==
    LET task == tasks[t] IN
    /\ task.pc = "done"
    /\ \A op \in {"get", "set_bought", "edit", "create_response"} :
         Cardinality(Issued(task, op)) <= 1
    /\ AllOk(task) =>
         /\ task.result = Ok_NoResponse
         /\ RowsOf(store, task.ev.message.id) # {}
         /\ \A i \in RowsOf(store, task.ev.message.id) : store[i].bought
         /\ ClosedRendering(t)
         /\ Len(task.ops) = 4
         /\ task.ops[2].op = "set_bought"
         /\ task.ops[3].op = "edit"
         /\ task.ops[4].op = "create_response"

C31_ClickCompletes ==
    \A t \in Tasks, u \in Users, c \in {"bought", "remove"} :
        (Clicked(t, u, c) /\ tasks[t].pc = "answerable")
          ~> (Clicked(t, u, c) /\ Completed(t))

\* a remove click whose calls all succeeded has completed
C31_Witness ==
    \E t \in Tasks :
        /\ IsClick(t, "remove")
        /\ tasks[t].pc = "done"
        /\ AllOk(tasks[t])
        /\ Cardinality(OpsOf(tasks[t], "create_response")) = 1
        /\ ClosedRendering(t)

====
